---- MODULE Spec2Model ----
(***************************************************************************)
(* Item-based collaborative filtering recommender (reco_films).            *)
(*                                                                         *)
(* Three specifications over one set of variables:                         *)
(*   SpecServe - the serving scorers (recommend_for_user, the registered   *)
(*               ItemCFPyFunc model, the /recommend endpoint) applied to   *)
(*               bounded histories, neighbor tables and popularity tables; *)
(*   SpecTrain - one run of train_item_based_cf, step by step, with the    *)
(*               failures each step can raise;                             *)
(*   SpecPub   - the SQL publication transaction of training interleaved   *)
(*               with concurrent recommend_for_user requests.              *)
(*                                                                         *)
(* Numbers: ratings are integers (stars), similarities of the serving      *)
(* tables are integers in a fixed unit, a CF score is the pair <<num,den>> *)
(* standing for num / (den + 1e-12).                                       *)
(***************************************************************************)
EXTENDS Integers, Sequences, FiniteSets, TLC

VARIABLES
    \* ---- serving: database tables as read by the scorers, and one call
    history,            \* rows of raw_ratings of the requesting user: movieId -> rating
    item_neighbors,     \* table raw.item_neighbors: [exists, rows], rows a set of rows
    movie_popularity,   \* table raw.movie_popularity: [exists, rows], rows movieId -> bayes_score
    n_reco,             \* parameter n_reco / top_n of the call
    min_user_ratings,   \* parameter min_user_ratings of the call
    TITLE_MAP,          \* main_user_api.TITLE_MAP: set of movieIds with a cached title
    call,               \* the last finished call: [op, out]
    \* ---- training: one run of train_item_based_cf
    ratings,            \* content of data/training_set.parquet: <<userId, movieId>> -> rating
    k_neighbors,        \* argument k_neighbors
    min_ratings,        \* argument min_ratings
    tpc,                \* position of the run
    run,                \* locals of the run
    registry,           \* MLflow registered model versions (sequence of artifacts)
    published,          \* SQL tables written by training: [item_neighbors, movie_popularity]
    before,             \* registry and published tables when the run started
    \* ---- publication transaction and concurrent requests
    tx,                 \* the open transaction of step 9 (private view) or closed
    req,                \* request id -> position and what it has read
    \* ---- the other operations, each applied to bounded inputs
    arg,                \* the inputs of the operation
    ret                 \* what it has returned or written so far

serveVars == <<history, item_neighbors, movie_popularity, n_reco, min_user_ratings, TITLE_MAP, call>>
trainVars == <<ratings, k_neighbors, min_ratings, tpc, run, registry, published, before>>
pubVars   == <<tx, req>>
opVars    == <<arg, ret>>
vars      == <<serveVars, trainVars, pubVars, opVars>>

----------------------------------------------------------------------------
(* Bounds of the model *)

MaxItem == 4            \* movie ids are 1..MaxItem
MaxHist == 2            \* at most this many rated movies in a history
MaxEdges == 3           \* at most this many rows in a serving neighbor table
MaxPop == 2             \* popularity tables hold movies 1..m, m <= MaxPop
MaxNReco == 2           \* n_reco ranges over 1..MaxNReco
MaxUser == 2            \* user ids of a training set are 1..MaxUser
MaxTrainItem == 3       \* movie ids of a training set are 1..MaxTrainItem
MaxRows == 5            \* at most this many rows in a training set
MaxK == 2               \* k_neighbors ranges over -1..MaxK
MaxMinRatings == 2      \* min_ratings ranges over 0..MaxMinRatings
MaxRequests == 2        \* concurrent requests during a publication
ChunkRows == 1          \* rows per INSERT of to_sql (chunksize, scaled down)

Items == 1..MaxItem
RatingValues == {3, 4, 5}
SimValues == {1, 2}
PopScores == {1, 2}

\* a table of the database: it exists or not; rows is empty when it does not
Table(rows) == [exists |-> TRUE, rows |-> rows]
NoNeighbors == [exists |-> FALSE, rows |-> {}]
NoPopularity == [exists |-> FALSE, rows |-> <<>>]

(* program constants *)
positive_threshold == 4
explain_top_k == 3

----------------------------------------------------------------------------
(* Generic helpers *)

RECURSIVE SumOver(_, _)
\* sum of f[x] for x in S
SumOver(S, f) ==
    IF S = {} THEN 0
    ELSE LET x == CHOOSE y \in S : TRUE IN f[x] + SumOver(S \ {x}, f)

Abs(x) == IF x < 0 THEN -x ELSE x

Min(a, b) == IF a < b THEN a ELSE b

Range(s) == {s[i] : i \in 1..Len(s)}

Head_n(s, n) == SubSeq(s, 1, Min(n, Len(s)))

RECURSIVE AscSeqs(_, _)
\* every enumeration of S in ascending order of rank[x]; elements of equal
\* rank come in any order (sort_values / ORDER BY give no order among ties)
AscSeqs(S, rank) ==
    IF S = {} THEN {<<>>}
    ELSE LET m == CHOOSE r \in {rank[x] : x \in S} : \A y \in S : r <= rank[y]
         IN UNION {{<<x>> \o t : t \in AscSeqs(S \ {x}, rank)} : x \in {y \in S : rank[y] = m}}

RECURSIVE Choices(_, _)
\* every function f on S with f[x] \in per[x]
Choices(S, per) ==
    IF S = {} THEN {<<>>}
    ELSE LET x == CHOOSE y \in S : TRUE
         IN {(x :> v) @@ f : v \in per[x], f \in Choices(S \ {x}, per)}

----------------------------------------------------------------------------
(* SQL: identifiers and table columns.  PostgreSQL folds an identifier that *)
(* is not double-quoted to lower case before it looks the column up; the    *)
(* tables written by pandas.to_sql keep the mixed-case column names.        *)

LowerCase ==
    [name \in {"movieId", "neighborMovieId", "userId", "rating", "similarity", "bayes_score"} |->
        CASE name = "movieId" -> "movieid"
          [] name = "neighborMovieId" -> "neighbormovieid"
          [] name = "userId" -> "userid"
          [] OTHER -> name]

FoldIdent(id) == IF id.quoted THEN id.name ELSE LowerCase[id.name]

Quoted(name) == [name |-> name, quoted |-> TRUE]
Bare(name) == [name |-> name, quoted |-> FALSE]

raw_ratings_columns == {"userId", "movieId", "rating", "timestamp", "ingested_at"}
item_neighbors_columns == {"movieId", "neighborMovieId", "similarity"}
movie_popularity_columns == {"movieId", "n_ratings", "mean_rating", "bayes_score"}

\* the identifiers each query of recommend_for_user names
history_query == {Quoted("movieId"), Bare("rating"), Quoted("userId")}
popular_query == {Bare("movieId"), Bare("bayes_score")}
neighbors_query == {Quoted("movieId"), Quoted("neighborMovieId"), Bare("similarity")}

\* a query runs iff the table exists and every identifier resolves to a column
QueryError(table, columns, query) ==
    IF ~table.exists THEN "UndefinedTable"
    ELSE IF \E id \in query : FoldIdent(id) \notin columns THEN "UndefinedColumn"
    ELSE "none"

----------------------------------------------------------------------------
(* Scores.  <<num, den>> stands for num / (den + 1e-12), num and den integers *)

\* a > b: num_a*(den_b + eps) > num_b*(den_a + eps); eps is far below one unit
ScoreGT(a, b) ==
    LET cross == a[1] * b[2] - b[1] * a[2]
    IN cross > 0 \/ (cross = 0 /\ a[1] > b[1])

ScoreGE(a, b) == ~ScoreGT(b, a)

\* rank of x in S for a descending sort: how many elements are strictly greater
DescRank(S, key) == [x \in S |-> Cardinality({y \in S : ScoreGT(key[y], key[x])})]

\* the rows of a popularity table, best bayes_score first, ties in any order
PopularityOrders(pop) ==
    AscSeqs(DOMAIN pop, DescRank(DOMAIN pop, [m \in DOMAIN pop |-> <<pop[m], 1>>]))

PopularRecs(pop, order, n) ==
    LET top == Head_n(order, n)
    IN [i \in 1..Len(top) |-> [movieId |-> top[i], score |-> <<pop[top[i]], 1>>, explanations |-> <<>>]]

----------------------------------------------------------------------------
(* predict_model2.recommend_for_user *)

\* the whole history, liked or not
seed_whole_history(h) == DOMAIN h

\* step 3: the liked movies, or the whole history when none is liked
seed(h) ==
    LET liked == {m \in DOMAIN h : h[m] >= positive_threshold}
    IN IF liked = {} THEN DOMAIN h ELSE liked

\* step 4 and 5: the neighbor rows of the seed movies (joined with the ratings)
neighbors_of(tbl, h) == {r \in tbl : r.movieId \in seed(h)}

group(nb, c) == {r \in nb : r.neighborMovieId = c}

\* step 6: np.dot(similarity, srcRating) / (abs(similarity).sum() + 1e-12)
score_of(g, h) ==
    <<SumOver(g, [r \in g |-> r.similarity * h[r.movieId]]),
      SumOver(g, [r \in g |-> Abs(r.similarity)])>>

\* explain_group: contribution = similarity*srcRating/denom, largest first, top_k rows
contribution(r, g, h) == <<r.similarity * h[r.movieId], SumOver(g, [x \in g |-> Abs(x.similarity)])>>

explain_group(g, h) ==
    {Head_n(s, explain_top_k) :
        s \in AscSeqs(g, DescRank(g, [r \in g |-> contribution(r, g, h)]))}

\* step 6 end: candidates are the scored movies the user has not seen
candidates(nb, h) == {r.neighborMovieId : r \in nb} \ DOMAIN h

RECURSIVE SortedIds(_)
\* ascending movie ids (the key order of DataFrame.groupby)
SortedIds(S) ==
    IF S = {} THEN <<>>
    ELSE LET m == CHOOSE x \in S : \A y \in S : x <= y IN <<m>> \o SortedIds(S \ {m})

\* steps 7 to 9 for one choice of explanation rows (expl: candidate -> rows)
\* and one order of the merged rows (a row is <<candidate, index in expl>>)
cf_recommendations(nb, h, expl, final) ==
    LET kept == SortedIds({final[i][1] : i \in 1..Len(final)})
        rowsOf(c) == SelectSeq(final, LAMBDA row : row[1] = c)
    IN [j \in 1..Len(kept) |->
          LET c == kept[j]
              rs == rowsOf(c)
          IN [movieId |-> c,
              score |-> score_of(group(nb, c), h),
              explanations |->
                 [i \in 1..Len(rs) |->
                    LET r == expl[c][rs[i][2]]
                    IN [because_movieId |-> r.movieId,
                        rating |-> h[r.movieId],
                        similarity |-> r.similarity,
                        contribution |-> contribution(r, group(nb, c), h)]]]]

\* every list steps 6 to 9 can return: scores.merge(explanations), sort by
\* score descending (ties in any order), head(n) of the ROWS, then one entry
\* per movie of the remaining rows in groupby order
cf_outcomes(nb, h, n) ==
    LET cands == candidates(nb, h)
        expls == Choices(cands, [c \in cands |-> explain_group(group(nb, c), h)])
    IN UNION {
         LET rows == UNION {{<<c, i>> : i \in 1..Len(e[c])} : c \in cands}
             key == [row \in rows |-> score_of(group(nb, row[1]), h)]
         IN {cf_recommendations(nb, h, e, Head_n(final, n)) :
                final \in AscSeqs(rows, DescRank(rows, key))}
         : e \in expls}

Raise(err) == [kind |-> "raise", error |-> err]
Result(strategy, recs) == [kind |-> "ok", strategy |-> strategy, recommendations |-> recs]

\* the set of outcomes of recommend_for_user(user_id, n_reco, min_user_ratings)
recommend_for_user(h, nbrs, pop, n, mur) ==
    IF DOMAIN h = {} \/ Cardinality(DOMAIN h) < mur
    THEN \* cold start: SELECT movieId, bayes_score AS score ... ORDER BY bayes_score DESC LIMIT n
         IF QueryError(pop, movie_popularity_columns, popular_query) # "none"
         THEN {Raise(QueryError(pop, movie_popularity_columns, popular_query))}
         ELSE {Result("popularity", PopularRecs(pop.rows, o, n)) : o \in PopularityOrders(pop.rows)}
    ELSE IF QueryError(nbrs, item_neighbors_columns, neighbors_query) # "none"
    THEN {Raise(QueryError(nbrs, item_neighbors_columns, neighbors_query))}
    ELSE LET nb == neighbors_of(nbrs.rows, h)
         IN IF nb = {}
            THEN {Result("popularity_fallback", <<>>)}
            ELSE {Result("item_based_cf", recs) : recs \in cf_outcomes(nb, h, n)}

----------------------------------------------------------------------------
(* mlflow_model.ItemCFPyFunc *)

\* ItemCFPyFunc.__init__: nothing loaded yet
NotLoaded == [loaded |-> FALSE, neighbors_dict |-> {}, popularity |-> <<>>, bayes_score |-> <<>>]

\* load_context: neighbors_dict from item_neighbors, popularity sorted by
\* bayes_score descending (the order among equal scores is fixed at load time)
load_context(nbrs, pop) ==
    {[loaded |-> TRUE, neighbors_dict |-> nbrs, popularity |-> o, bayes_score |-> pop] :
        o \in PopularityOrders(pop)}

Frame(recs) == [kind |-> "frame", recommendations |-> recs]

\* self.popularity.head(self.n_reco)[["movieId", "bayes_score"]]
popularity_head(model, n) == Frame(PopularRecs(model.bayes_score, model.popularity, n))

\* scores[neigh] = scores.get(neigh, 0.0) + sim over the seeds' unseen neighbors
pyfunc_scores(model, h) ==
    LET nb == {r \in model.neighbors_dict : r.movieId \in seed(h) /\ r.neighborMovieId \notin DOMAIN h}
    IN [c \in {r.neighborMovieId : r \in nb} |->
          <<SumOver(group(nb, c), [r \in group(nb, c) |-> r.similarity]), 1>>]

\* the set of outcomes of ItemCFPyFunc.predict(context, model_input)
ItemCFPyFunc_predict(model, h, n, mur) ==
    IF DOMAIN h = {} \/ Cardinality(DOMAIN h) < mur
    THEN IF ~model.loaded THEN {Raise("AttributeError")}
         ELSE {popularity_head(model, n)}
    ELSE IF ~model.loaded THEN {Raise("AttributeError")}
    ELSE LET scores == pyfunc_scores(model, h)
         IN IF DOMAIN scores = {}
            THEN {popularity_head(model, n)}
            ELSE {Frame([i \in 1..Len(Head_n(o, n)) |->
                            [movieId |-> o[i], score |-> scores[o[i]], explanations |-> <<>>]]) :
                    o \in AscSeqs(DOMAIN scores, DescRank(DOMAIN scores, scores))}

----------------------------------------------------------------------------
(* main_user_api.recommend: GET /recommend *)

HTTP(status, detail) == [kind |-> "http", status |-> status, detail |-> detail]

\* the response for one outcome of the scorer
api_response(titles, out) ==
    IF titles = {} THEN HTTP(503, "Cache is empty")
    ELSE IF out.kind = "raise" THEN HTTP(500, out.error)
    ELSE [kind |-> "http", status |-> 200,
          body |-> [user_id |-> "user_id",
                    recommendations |->
                      [i \in 1..Len(out.recommendations) |->
                         [movie_id |-> out.recommendations[i].movieId,
                          title |-> IF out.recommendations[i].movieId \in titles THEN "title" ELSE "Unknown",
                          score |-> out.recommendations[i].score]]]]

recommend(titles, h, nbrs, pop, n, mur) ==
    IF titles = {} THEN {HTTP(503, "Cache is empty")}
    ELSE {api_response(titles, out) : out \in recommend_for_user(h, nbrs, pop, n, mur)}

----------------------------------------------------------------------------
(* SpecServe: the scorers applied to bounded inputs *)

Histories == UNION {[H -> RatingValues] : H \in {S \in SUBSET Items : Cardinality(S) <= MaxHist}}

\* neighbor rows: one row per (movieId, neighborMovieId); only rows whose
\* source the user has rated are drawn, the scorers read no other row
EdgePairs(h) == {p \in (DOMAIN h) \X Items : p[1] # p[2]}

NeighborTables(h) ==
    UNION {{{[movieId |-> p[1], neighborMovieId |-> p[2], similarity |-> f[p]] : p \in P} :
                f \in [P -> SimValues]} :
            P \in {Q \in SUBSET EdgePairs(h) : Cardinality(Q) <= MaxEdges}}

\* popularity rows for movies 1..m; only the order of the scores matters, so
\* the scores of a table are 1..k for some k
PopularityTables ==
    {t \in UNION {[1..m -> PopScores] : m \in 0..MaxPop} :
        \A s \in PopScores : (\E i \in DOMAIN t : t[i] = s) => \A r \in 1..s : \E i \in DOMAIN t : t[i] = r}

NoCall == [op |-> "none", out |-> [kind |-> "none"]]

TrainIdle ==
    /\ ratings = <<>>
    /\ k_neighbors = 0
    /\ min_ratings = 0
    /\ tpc = "off"
    /\ run = <<>>
    /\ registry = <<>>
    /\ published = <<>>
    /\ before = <<>>

PubIdle ==
    /\ tx = <<>>
    /\ req = <<>>

OpIdle ==
    /\ arg = <<>>
    /\ ret = <<>>

InitServe ==
    /\ history \in Histories
    /\ \/ /\ item_neighbors \in {Table(t) : t \in NeighborTables(history)}
          /\ movie_popularity \in {Table(t) : t \in PopularityTables}
       \/ /\ item_neighbors = NoNeighbors      \* never trained
          /\ movie_popularity = NoPopularity
    /\ n_reco \in 1..MaxNReco
    \* the longest histories pass the cold-start check, the shorter ones do not
    /\ min_user_ratings = MaxHist
    \* /recommend answers 503 before it reads any input when the cache is
    \* empty: the empty cache is drawn with the empty history only
    /\ TITLE_MAP \in (IF DOMAIN history = {} THEN {{}, Items} ELSE {Items})
    /\ call = NoCall
    /\ TrainIdle
    /\ PubIdle
    /\ OpIdle

ServeInputsUnchanged ==
    UNCHANGED <<history, item_neighbors, movie_popularity, n_reco, min_user_ratings, TITLE_MAP,
                trainVars, pubVars, opVars>>

\* recommend_for_user(user_id, n_reco, min_user_ratings)
CallRecommendForUser ==
    /\ call.op = "none"
    /\ \E out \in recommend_for_user(history, item_neighbors, movie_popularity, n_reco, min_user_ratings) :
          call' = [op |-> "recommend_for_user", out |-> out]
    /\ ServeInputsUnchanged

\* the registered model: loaded from the artifacts of the run, then predict
CallPredict ==
    /\ call.op = "none"
    /\ \E model \in (IF ~item_neighbors.exists THEN {NotLoaded}
                     ELSE load_context(item_neighbors.rows, movie_popularity.rows)) :
         \E out \in ItemCFPyFunc_predict(model, history, n_reco, min_user_ratings) :
            call' = [op |-> "ItemCFPyFunc.predict", out |-> out]
    /\ ServeInputsUnchanged

\* GET /recommend?user_id=..&top_n=..
CallApi ==
    /\ call.op = "none"
    /\ \E out \in recommend(TITLE_MAP, history, item_neighbors, movie_popularity, n_reco, min_user_ratings) :
          call' = [op |-> "GET /recommend", out |-> out]
    /\ ServeInputsUnchanged

NextServe == CallRecommendForUser \/ CallPredict \/ CallApi

SpecServe == InitServe /\ [][NextServe]_vars

----------------------------------------------------------------------------
(* train_model2: the pure parts of train_item_based_cf *)

Users == 1..MaxUser
TrainItems == 1..MaxTrainItem
TrainRatingValues == {4, 5}

\* a rating set: <<userId, movieId>> -> rating, one row per pair
RowKeys == Users \X TrainItems
RatingSets ==
    UNION {[K -> TrainRatingValues] : K \in {S \in SUBSET RowKeys : Cardinality(S) <= MaxRows}}

Restrict(R, K) == [k \in K |-> R[k]]

movies_of(K) == {k[2] : k \in K}
users_of(K) == {k[1] : k \in K}
rows_of_movie(K, m) == {k \in K : k[2] = m}

RECURSIVE ProductOver(_, _)
ProductOver(S, f) ==
    IF S = {} THEN 1
    ELSE LET x == CHOOSE y \in S : TRUE IN f[x] * ProductOver(S \ {x}, f)

\* the prior mean is left out of the numerator: count*mean / (C + count),
\* that is I*S_m / (N + I*n_m)
compute_bayesian_popularity_no_prior(R) ==
    LET ms == movies_of(DOMAIN R)
        cnt == [m \in ms |-> Cardinality(rows_of_movie(DOMAIN R, m))]
        sum == [m \in ms |-> SumOver(rows_of_movie(DOMAIN R, m), [k \in rows_of_movie(DOMAIN R, m) |-> R[k]])]
        N == Cardinality(DOMAIN R)
        I == Cardinality(ms)
    IN [m \in ms |->
          [n_ratings |-> cnt[m],
           mean_rating |-> <<sum[m], cnt[m]>>,
           bayes_score |-> <<I * sum[m], N + I * cnt[m]>>]]

\* compute_bayesian_popularity: per movie count and mean, C = mean count,
\* M = mean of the means, bayes_score = (C*M + count*mean) / (C + count).
\* Exact fractions <<num, den>>: with N rows, I movies, S_m the rating sum and
\* n_m the count of movie m, L the product of the counts and P the sum of
\* S_j*L/n_j:  bayes_score(m) = (N*P + I*I*L*S_m) / (I*L*(N + I*n_m))
compute_bayesian_popularity(R) ==
    LET ms == movies_of(DOMAIN R)
        cnt == [m \in ms |-> Cardinality(rows_of_movie(DOMAIN R, m))]
        sum == [m \in ms |-> SumOver(rows_of_movie(DOMAIN R, m), [k \in rows_of_movie(DOMAIN R, m) |-> R[k]])]
        N == Cardinality(DOMAIN R)
        I == Cardinality(ms)
        L == ProductOver(ms, cnt)
        P == SumOver(ms, [m \in ms |-> sum[m] * (L \div cnt[m])])
    IN [m \in ms |->
          [n_ratings |-> cnt[m],
           mean_rating |-> <<sum[m], cnt[m]>>,
           bayes_score |-> <<N * P + I * I * L * sum[m], I * L * (N + I * cnt[m])>>]]

\* counts = value_counts(); keep_movies = counts[counts >= min_ratings]
keep_movies(R, mr) == {m \in movies_of(DOMAIN R) : Cardinality(rows_of_movie(DOMAIN R, m)) >= mr}

\* the min_ratings filter is not applied
filter_ratings_off(R, mr) == R

\* ratings = ratings[ratings["movieId"].isin(keep_movies)]
filter_ratings(R, mr) == Restrict(R, {k \in DOMAIN R : k[2] \in keep_movies(R, mr)})

\* train_test_split(test_size=0.2, random_state=42): ceil(0.2*n) rows are
\* held out; which ones is fixed by the seed and the row order of the file,
\* here any subset of that size; it raises when the training side is empty
n_test(n) == (n + 4) \div 5

test_sides(K) ==
    IF Cardinality(K) - n_test(Cardinality(K)) <= 0 THEN {}
    ELSE {T \in SUBSET K : Cardinality(T) = n_test(Cardinality(K))}

\* X_iu: the item x user matrix of the training side (0 where not rated)
X_iu(R, train, m, u) == IF <<u, m>> \in train THEN R[<<u, m>>] ELSE 0

\* the dot products of the rows of X_iu: <<a, b>> -> a . b
Dots(R, train) ==
    [p \in movies_of(train) \X movies_of(train) |->
        SumOver(users_of(train),
                [u \in users_of(train) |-> X_iu(R, train, p[1], u) * X_iu(R, train, p[2], u)])]

\* b is strictly closer to i than a in cosine distance:
\* dot(i,b)/|b| > dot(i,a)/|a|, compared exactly on the squares
Closer(D, i, b, a) ==
    D[<<i, b>>] * D[<<i, b>>] * D[<<a, a>>] > D[<<i, a>>] * D[<<i, a>>] * D[<<b, b>>]

\* nn.kneighbors for row i: the n nearest rows of the fitted matrix, nearest
\* first; rows at equal distance (the row itself and any parallel row) come
\* in an order the library does not define
kneighbors(D, items, i, n) ==
    {Head_n(s, n) : s \in AscSeqs(items, [a \in items |-> Cardinality({b \in items : Closer(D, i, b, a)})])}

\* similarity = 1 - cosine distance, kept exact as <<dot, |i|^2 * |j|^2>>
\* (the cosine is dot / sqrt of the second component)
similarity_of(D, i, j) == <<D[<<i, j>>], D[<<i, i>>] * D[<<j, j>>]>>

RECURSIVE Flatten(_)
Flatten(ss) == IF ss = <<>> THEN <<>> ELSE Head(ss) \o Flatten(Tail(ss))

\* steps 4 and 5 for one answer idxs of kneighbors (movie -> its k+1 nearest):
\* column 0 is dropped, the k others become the rows of item_neighbors_df
neighbor_rows(D, src, idxs, k) ==
    Flatten([a \in 1..Len(src) |->
               [c \in 1..k |->
                  [movieId |-> src[a],
                   neighborMovieId |-> idxs[src[a]][c + 1],
                   similarity |-> similarity_of(D, src[a], idxs[src[a]][c + 1])]]])

\* NearestNeighbors(n_neighbors=k+1).fit / kneighbors raise on these
knn_raises(train, k) == k + 1 <= 0 \/ k + 1 > Cardinality(movies_of(train))

\* every item_neighbors_df steps 3 to 5 can produce
item_neighbors_dfs(R, train, k) ==
    LET items == movies_of(train)
        D == Dots(R, train)
        per == [i \in items |-> kneighbors(D, items, i, k + 1)]
    IN {neighbor_rows(D, SortedIds(items), idxs, k) : idxs \in Choices(items, per)}

----------------------------------------------------------------------------
(* train_model2: step 6, the evaluation *)

eval_k == 10
sample_size == 1000
SimScale == 100

RECURSIVE Bisect(_, _, _)
\* the largest s in lo..hi with s*s <= n
Bisect(n, lo, hi) ==
    IF lo >= hi THEN lo
    ELSE LET mid == (lo + hi + 1) \div 2
         IN IF mid * mid <= n THEN Bisect(n, mid, hi) ELSE Bisect(n, lo, mid - 1)

\* float(similarity) in units of 1/SimScale, rounded down
sim_value(sim) == Bisect((SimScale * SimScale * sim[1] * sim[1]) \div sim[2], 0, SimScale)

RECURSIVE Dedup(_)
\* the first occurrence of each element, in order (dict insertion order)
Dedup(seq) ==
    IF seq = <<>> THEN <<>>
    ELSE LET rest == Dedup(SubSeq(seq, 1, Len(seq) - 1))
         IN IF seq[Len(seq)] \in Range(rest) THEN rest ELSE Append(rest, seq[Len(seq)])

\* scores[rec] = scores.get(rec, 0) + sim over the history's unseen neighbors;
\* best = the eval_k first of sorted(scores.items(), reverse=True) (stable)
eval_best(df, hist) ==
    LET rows == SelectSeq(df, LAMBDA r : r.movieId \in hist /\ r.neighborMovieId \notin hist)
        byHist == Flatten([a \in 1..Len(SortedIds(hist)) |->
                     SelectSeq(rows, LAMBDA r : r.movieId = SortedIds(hist)[a])])
        order == Dedup([i \in 1..Len(byHist) |-> byHist[i].neighborMovieId])
        idx == {i \in 1..Len(rows) : TRUE}
        score == [c \in Range(order) |->
                    SumOver({i \in idx : rows[i].neighborMovieId = c}, [i \in idx |-> sim_value(rows[i].similarity)])]
        pos == [c \in Range(order) |-> CHOOSE i \in 1..Len(order) : order[i] = c]
        rank == [c \in Range(order) |->
                    Cardinality({d \in Range(order) : score[d] > score[c] \/ (score[d] = score[c] /\ pos[d] < pos[c])})]
    IN Head_n([i \in 1..Len(order) |-> CHOOSE c \in Range(order) : rank[c] = i - 1], eval_k)

\* the hits are counted on the whole list, without the [:10] cut
hits_uncut(recos, truth_set) == Range(recos) \cap truth_set

\* len(set(recos[:10]) & truth_set)
hits(recos, truth_set) == Range(Head_n(recos, 10)) \cap truth_set

\* 1000 / log2(i + 2) for i = 0..9
discount == <<1000, 631, 500, 431, 387, 356, 333, 315, 301, 289>>

\* the metrics are exact fractions <<num, den>>
recall_at_10(recos, truth_set) ==
    IF truth_set = {} THEN <<0, 1>> ELSE <<Cardinality(hits(recos, truth_set)), Cardinality(truth_set)>>

precision_at_10(recos, truth_set) ==
    IF recos = <<>> THEN <<0, 1>> ELSE <<Cardinality(hits(recos, truth_set)), 10>>

ndcg_at_10(recos, truth_set) ==
    IF truth_set = {} THEN <<0, 1>>
    ELSE LET top == Head_n(recos, 10)
             at == {i \in 1..Len(top) : top[i] \in truth_set}
             dcg == SumOver(at, [i \in at |-> discount[i]])
             ideal == 1..Min(Cardinality(truth_set), 10)
             idcg == SumOver(ideal, [i \in ideal |-> discount[i]])
         IN IF idcg > 0 THEN <<dcg, idcg>> ELSE <<0, 1>>

RECURSIVE SumFractions(_)
SumFractions(fs) ==
    IF fs = <<>> THEN <<0, 1>>
    ELSE LET r == SumFractions(Tail(fs))
         IN <<Head(fs)[1] * r[2] + r[1] * Head(fs)[2], Head(fs)[2] * r[2]>>

\* np.mean(values) if values else 0
mean_or_zero(fs) ==
    IF fs = <<>> THEN <<0, 1>> ELSE <<SumFractions(fs)[1], SumFractions(fs)[2] * Len(fs)>>

\* every user of the held-out side, with or without a training history
evaluated_users_unfiltered(train, test) == Head_n(SortedIds(users_of(test)), sample_size)

\* the users of the held-out side that are evaluated: both a training
\* history and a held-out set (users without either are skipped)
evaluated_users(train, test) ==
    SelectSeq(Head_n(SortedIds(users_of(test)), sample_size),
              LAMBDA u : {k \in train : k[1] = u} # {} /\ {k \in test : k[1] = u} # {})

evaluate(df, train, test) ==
    LET us == evaluated_users(train, test)
        hist(u) == movies_of({k \in train : k[1] = u})
        truth(u) == movies_of({k \in test : k[1] = u})
        best == [i \in 1..Len(us) |-> eval_best(df, hist(us[i]))]
        recalls == [i \in 1..Len(us) |-> recall_at_10(best[i], truth(us[i]))]
        ndcgs == [i \in 1..Len(us) |-> ndcg_at_10(best[i], truth(us[i]))]
        precisions == [i \in 1..Len(us) |-> precision_at_10(best[i], truth(us[i]))]
    IN [users |-> us, best |-> best,
        recall_10 |-> mean_or_zero(recalls),
        ndcg_10 |-> mean_or_zero(ndcgs),
        precision_10 |-> mean_or_zero(precisions)]

----------------------------------------------------------------------------
(* SpecTrain: one run of train_item_based_cf(k_neighbors, min_ratings) *)

NoRun ==
    [loaded |-> FALSE, movie_popularity |-> <<>>, train |-> {}, test |-> {},
     item_neighbors_df |-> <<>>, metrics |-> <<>>, failed_at |-> "none"]

NothingPublished == [exists |-> FALSE, item_neighbors |-> <<>>, movie_popularity |-> <<>>]

\* the result of an earlier run, still registered and published
PreviousNeighbors == <<[movieId |-> 1, neighborMovieId |-> 2, similarity |-> <<1, 1>>],
                       [movieId |-> 2, neighborMovieId |-> 1, similarity |-> <<1, 1>>]>>
PreviousPopularity ==
    [m \in {1, 2} |-> [n_ratings |-> 1, mean_rating |-> <<5, 1>>, bayes_score |-> <<5, 1>>]]
PreviousVersion == [item_neighbors |-> PreviousNeighbors, movie_popularity |-> PreviousPopularity]
PreviousPublished ==
    [exists |-> TRUE, item_neighbors |-> PreviousNeighbors, movie_popularity |-> PreviousPopularity]

ServeIdle ==
    /\ history = <<>>
    /\ item_neighbors = NoNeighbors
    /\ movie_popularity = NoPopularity
    /\ n_reco = 1
    /\ min_user_ratings = 1
    /\ TITLE_MAP = {}
    /\ call = NoCall

InitTrain ==
    /\ ratings \in {[exists |-> TRUE, rows |-> R] : R \in RatingSets} \cup {[exists |-> FALSE, rows |-> <<>>]}
    /\ k_neighbors \in -1..MaxK
    /\ min_ratings \in 0..MaxMinRatings
    /\ tpc = "ready"
    /\ run = NoRun
    /\ \/ registry = <<>> /\ published = NothingPublished
       \/ registry = <<PreviousVersion>> /\ published = PreviousPublished
    /\ before = [registry |-> registry, published |-> published]
    /\ ServeIdle
    /\ PubIdle
    /\ OpIdle

TrainInputsUnchanged ==
    UNCHANGED <<ratings, k_neighbors, min_ratings, before, serveVars, pubVars, opVars>>

\* lines 106-124: MLflow experiment and run, parameters and tags
StartRun ==
    /\ tpc = "ready"
    /\ tpc' = "started"
    /\ UNCHANGED <<run, registry, published>>
    /\ TrainInputsUnchanged

\* step 1: FileNotFoundError when the snapshot is missing, else read it
LoadParquet ==
    /\ tpc = "started"
    /\ IF ratings.exists
       THEN tpc' = "loaded" /\ run' = [run EXCEPT !.loaded = TRUE]
       ELSE tpc' = "failed" /\ run' = [run EXCEPT !.failed_at = "load"]
    /\ UNCHANGED <<registry, published>>
    /\ TrainInputsUnchanged

\* step 2: popularity on all rows, min_ratings filter, train_test_split
PopularityAndSplit ==
    /\ tpc = "loaded"
    /\ LET kept == filter_ratings(ratings.rows, min_ratings)
       IN IF test_sides(DOMAIN kept) = {}
          THEN /\ tpc' = "failed"
               /\ run' = [run EXCEPT !.movie_popularity = compute_bayesian_popularity(ratings.rows),
                                     !.failed_at = "split"]
          ELSE \E T \in test_sides(DOMAIN kept) :
                 /\ tpc' = "split"
                 /\ run' = [run EXCEPT !.movie_popularity = compute_bayesian_popularity(ratings.rows),
                                       !.train = DOMAIN kept \ T,
                                       !.test = T]
    /\ UNCHANGED <<registry, published>>
    /\ TrainInputsUnchanged

\* steps 3 to 5: sparse matrix, NearestNeighbors(k+1), kneighbors, edge rows
KnnNeighbors ==
    /\ tpc = "split"
    /\ IF knn_raises(run.train, k_neighbors)
       THEN tpc' = "failed" /\ run' = [run EXCEPT !.failed_at = "knn"]
       ELSE \E df \in item_neighbors_dfs(ratings.rows, run.train, k_neighbors) :
               tpc' = "neighbors" /\ run' = [run EXCEPT !.item_neighbors_df = df]
    /\ UNCHANGED <<registry, published>>
    /\ TrainInputsUnchanged

\* step 6: evaluation on the held-out side, metrics logged to MLflow
Evaluate ==
    /\ tpc = "neighbors"
    /\ tpc' = "evaluated"
    /\ run' = [run EXCEPT !.metrics = evaluate(run.item_neighbors_df, run.train, run.test)]
    /\ UNCHANGED <<registry, published>>
    /\ TrainInputsUnchanged

\* step 7: the two parquet files of the run, logged as run artifacts
WriteArtifacts ==
    /\ tpc = "evaluated"
    /\ tpc' = "artifacts"
    /\ UNCHANGED <<run, registry, published>>
    /\ TrainInputsUnchanged

\* step 8: mlflow.pyfunc.log_model(..., registered_model_name=...) adds a version
LogModel ==
    /\ tpc = "artifacts"
    /\ tpc' = "registered"
    /\ registry' = Append(registry, [item_neighbors |-> run.item_neighbors_df,
                                     movie_popularity |-> run.movie_popularity])
    /\ UNCHANGED <<run, published>>
    /\ TrainInputsUnchanged

\* step 9: one transaction drops and rewrites both tables (see SpecPub)
SaveSql ==
    /\ tpc = "registered"
    /\ tpc' = "done"
    /\ published' = [exists |-> TRUE, item_neighbors |-> run.item_neighbors_df,
                     movie_popularity |-> run.movie_popularity]
    /\ UNCHANGED <<run, registry>>
    /\ TrainInputsUnchanged

Running == {"ready", "started", "loaded", "split", "neighbors", "evaluated", "artifacts", "registered"}

\* the next statement raises (MLflow or the database unreachable, disk, memory)
Fail ==
    /\ tpc \in Running
    /\ tpc' = "failed"
    /\ run' = [run EXCEPT !.failed_at = tpc]
    /\ UNCHANGED <<registry, published>>
    /\ TrainInputsUnchanged

NextTrain ==
    \/ StartRun \/ LoadParquet \/ PopularityAndSplit \/ KnnNeighbors \/ Evaluate
    \/ WriteArtifacts \/ LogModel \/ SaveSql \/ Fail

SpecTrain == InitTrain /\ [][NextTrain]_vars

----------------------------------------------------------------------------
(* SpecPub: step 9 of training, statement by statement, and concurrent     *)
(* recommend_for_user requests.  The tables are in the serving format.     *)

Requests == 1..MaxRequests

\* the tables of the previous run and of the run being published
OldNeighbors == {[movieId |-> 1, neighborMovieId |-> 3, similarity |-> 1]}
OldPopularity == (1 :> 1)
NewNeighbors == {[movieId |-> 1, neighborMovieId |-> 4, similarity |-> 2],
                 [movieId |-> 2, neighborMovieId |-> 3, similarity |-> 1],
                 [movieId |-> 2, neighborMovieId |-> 4, similarity |-> 1]}
NewPopularity == (1 :> 1) @@ (2 :> 2)

NeverTrained == [item_neighbors |-> NoNeighbors, movie_popularity |-> NoPopularity]
OldSnapshot == [item_neighbors |-> Table(OldNeighbors), movie_popularity |-> Table(OldPopularity)]
NewSnapshot == [item_neighbors |-> Table(NewNeighbors), movie_popularity |-> Table(NewPopularity)]

\* the users that send requests: one without ratings, one past the cold start
PubHistories == {<<>>, (1 :> 5) @@ (2 :> 4)}

NoTx == [open |-> FALSE, pc |-> "closed", item_neighbors |-> NoNeighbors, movie_popularity |-> NoPopularity]

IdleRequest ==
    [pc |-> "idle", h |-> <<>>, during |-> FALSE, seen |-> NeverTrained, out |-> [kind |-> "none"]]

InitPub ==
    /\ \E snap \in {NeverTrained, OldSnapshot} :
          /\ item_neighbors = snap.item_neighbors
          /\ movie_popularity = snap.movie_popularity
    /\ tx = NoTx
    /\ req = [r \in Requests |-> IdleRequest]
    /\ history = <<>>
    /\ n_reco = MaxNReco
    /\ min_user_ratings = 2
    /\ TITLE_MAP = {}
    /\ call = NoCall
    /\ TrainIdle
    /\ OpIdle

PubUnchanged == UNCHANGED <<history, n_reco, min_user_ratings, TITLE_MAP, call, trainVars, opVars>>

\* the block runs without a transaction (autocommit): every statement is
\* seen by the other sessions at once
VisibleUncommitted(committed, private) == private

\* `with engine.begin() as conn`: the statements of the block run in one
\* transaction; its writes are private until the block exits normally.
\* What another session sees of a table is its committed state
Visible(committed, private) == committed

\* with engine.begin() as conn:
BeginTx ==
    /\ ~tx.open /\ tx.pc = "closed"
    /\ tx' = [open |-> TRUE, pc |-> "begun",
              item_neighbors |-> item_neighbors, movie_popularity |-> movie_popularity]
    /\ UNCHANGED <<item_neighbors, movie_popularity, req>>
    /\ PubUnchanged

\* DROP TABLE IF EXISTS item_neighbors
DropNeighbors ==
    /\ tx.open /\ tx.pc = "begun"
    /\ tx' = [tx EXCEPT !.pc = "dropped1", !.item_neighbors = NoNeighbors]
    /\ UNCHANGED <<item_neighbors, movie_popularity, req>>
    /\ PubUnchanged

\* DROP TABLE IF EXISTS movie_popularity
DropPopularity ==
    /\ tx.open /\ tx.pc = "dropped1"
    /\ tx' = [tx EXCEPT !.pc = "dropped2", !.movie_popularity = NoPopularity]
    /\ UNCHANGED <<item_neighbors, movie_popularity, req>>
    /\ PubUnchanged

\* item_neighbors_df.to_sql(..., chunksize): create the table, then insert
\* the rows chunk by chunk (here ChunkRows rows at a time)
WriteNeighbors ==
    /\ tx.open /\ tx.pc = "dropped2"
    /\ IF ~tx.item_neighbors.exists
       THEN tx' = [tx EXCEPT !.item_neighbors = Table({})]
       ELSE LET left == NewNeighbors \ tx.item_neighbors.rows
            IN IF left = {}
               THEN tx' = [tx EXCEPT !.pc = "written1"]
               ELSE \E chunk \in {c \in SUBSET left : Cardinality(c) = Min(ChunkRows, Cardinality(left))} :
                       tx' = [tx EXCEPT !.item_neighbors = Table(tx.item_neighbors.rows \cup chunk)]
    /\ UNCHANGED <<item_neighbors, movie_popularity, req>>
    /\ PubUnchanged

\* movie_popularity.to_sql(..., chunksize)
WritePopularity ==
    /\ tx.open /\ tx.pc = "written1"
    /\ IF ~tx.movie_popularity.exists
       THEN tx' = [tx EXCEPT !.movie_popularity = Table(<<>>)]
       ELSE LET done == DOMAIN tx.movie_popularity.rows
                left == DOMAIN NewPopularity \ done
            IN IF left = {}
               THEN tx' = [tx EXCEPT !.pc = "written2"]
               ELSE \E chunk \in {c \in SUBSET left : Cardinality(c) = Min(ChunkRows, Cardinality(left))} :
                       tx' = [tx EXCEPT !.movie_popularity =
                                 Table([m \in done \cup chunk |-> NewPopularity[m]])]
    /\ UNCHANGED <<item_neighbors, movie_popularity, req>>
    /\ PubUnchanged

\* the block exits: COMMIT makes both new tables visible at once
Commit ==
    /\ tx.open /\ tx.pc = "written2"
    /\ item_neighbors' = tx.item_neighbors
    /\ movie_popularity' = tx.movie_popularity
    /\ tx' = [NoTx EXCEPT !.pc = "committed"]
    /\ UNCHANGED req
    /\ PubUnchanged

\* a statement of the block raises: ROLLBACK, nothing of it is kept
Rollback ==
    /\ tx.open
    /\ tx' = [NoTx EXCEPT !.pc = "rolled back"]
    /\ UNCHANGED <<item_neighbors, movie_popularity, req>>
    /\ PubUnchanged

\* recommend_for_user, step 1: read the user's ratings
ReadHistory(r) ==
    /\ req[r].pc = "idle"
    /\ \E h \in PubHistories :
          req' = [req EXCEPT ![r] = [@ EXCEPT !.pc = "history", !.h = h, !.during = tx.open]]
    /\ UNCHANGED <<item_neighbors, movie_popularity, tx>>
    /\ PubUnchanged

\* recommend_for_user, steps 2 to 9: the one query on a published table
\* (popularity for a cold start, neighbors otherwise) and the result
QueryAndReturn(r) ==
    /\ req[r].pc = "history"
    /\ LET db == [item_neighbors |->
                     Visible(item_neighbors, IF tx.open THEN tx.item_neighbors ELSE item_neighbors),
                  movie_popularity |->
                     Visible(movie_popularity, IF tx.open THEN tx.movie_popularity ELSE movie_popularity)]
       IN \E out \in recommend_for_user(req[r].h, db.item_neighbors, db.movie_popularity,
                                        n_reco, min_user_ratings) :
             req' = [req EXCEPT ![r] = [@ EXCEPT !.pc = "done", !.seen = db, !.out = out]]
    /\ UNCHANGED <<item_neighbors, movie_popularity, tx>>
    /\ PubUnchanged

NextPub ==
    \/ BeginTx \/ DropNeighbors \/ DropPopularity \/ WriteNeighbors \/ WritePopularity
    \/ Commit \/ Rollback
    \/ \E r \in Requests : ReadHistory(r)
    \/ \E r \in Requests : QueryAndReturn(r)

SpecPub == InitPub /\ [][NextPub]_vars

----------------------------------------------------------------------------
(* Claims on the serving scorers (SpecServe) *)

Trained == item_neighbors.exists /\ movie_popularity.exists

ColdStart == Cardinality(DOMAIN history) < min_user_ratings

Strategies == {"item_based_cf", "popularity", "popularity_fallback"}

\* recs is a top-n of the popularity table pop: min(n, rows) distinct rows with
\* their bayes_score, best first, and no row left out beats a listed one
IsTopN(recs, pop, n) ==
    /\ Len(recs) = Min(n, Cardinality(DOMAIN pop))
    /\ \A i \in 1..Len(recs) : recs[i].movieId \in DOMAIN pop /\ recs[i].score = <<pop[recs[i].movieId], 1>>
    /\ \A i, j \in 1..Len(recs) : i < j => recs[i].movieId # recs[j].movieId /\ recs[i].score[1] >= recs[j].score[1]
    /\ \A m \in DOMAIN pop :
          (\A i \in 1..Len(recs) : recs[i].movieId # m) => \A i \in 1..Len(recs) : recs[i].score[1] >= pop[m]

\* C1: a user with fewer than min_user_ratings ratings (none included) gets
\* strategy "popularity" and exactly the top n_reco rows of the popularity
\* table by bayes_score descending (all rows when there are fewer)
C1_ColdStartIsPopularityTopN ==
    (call.op = "recommend_for_user" /\ Trained /\ ColdStart) =>
        /\ call.out.kind = "ok"
        /\ call.out.strategy = "popularity"
        /\ IsTopN(call.out.recommendations, movie_popularity.rows, n_reco)

\* C2: whatever the strategy, no returned recommendation is a movie of the
\* caller's history
C2_NeverRecommendsSeen ==
    (call.op \in {"recommend_for_user", "ItemCFPyFunc.predict"} /\ call.out.kind \in {"ok", "frame"}) =>
        \A i \in 1..Len(call.out.recommendations) :
            call.out.recommendations[i].movieId \notin DOMAIN history

\* the two fallback situations: no seed has a neighbor row, or every
\* candidate neighbor is already in the history
NoPersonalCandidates ==
    \/ neighbors_of(item_neighbors.rows, history) = {}
    \/ candidates(neighbors_of(item_neighbors.rows, history), history) = {}

\* C3: past the cold-start check, when no seed has a neighbor row or every
\* candidate is already seen, the result is the popularity top-n tagged
\* "popularity_fallback" (never an empty list, never "item_based_cf")
C3_FallbackIsPopularityList ==
    (call.op = "recommend_for_user" /\ Trained /\ ~ColdStart /\ NoPersonalCandidates) =>
        /\ call.out.kind = "ok"
        /\ call.out.strategy = "popularity_fallback"
        /\ IsTopN(call.out.recommendations, movie_popularity.rows, n_reco)

\* C6: for every user, one without ratings included, recommend returns a
\* result, and the result carries one strategy tag all the way to the caller
C6_AlwaysATaggedResult ==
    /\ (call.op = "recommend_for_user" /\ Trained) =>
          call.out.kind = "ok" /\ call.out.strategy \in Strategies
    /\ (call.op = "GET /recommend" /\ Trained /\ TITLE_MAP # {}) =>
          /\ call.out.status = 200
          /\ "strategy" \in DOMAIN call.out.body
          /\ call.out.body.strategy \in Strategies

\* C7: when the neighbor table or the popularity table is missing, the
\* request ends in the dedicated service-not-ready failure (HTTP 503, the
\* status this API uses for not-ready), never in a result
C7_MissingModelIsServiceNotReady ==
    (call.op = "GET /recommend" /\ ~Trained /\ TITLE_MAP # {}) => call.out.status = 503

\* a < b as plain numbers num/den (den > 0)
PlainLT(a, b) == a[1] * b[2] < b[1] * a[2]

\* C10: in the item_based_cf path the returned recommendations are exactly
\* the n_reco candidates with the highest scores (all of them when fewer),
\* in descending score order
C10_TopKByDescendingScore ==
    (call.op = "recommend_for_user" /\ call.out.kind = "ok" /\ call.out.strategy = "item_based_cf") =>
        LET nb == neighbors_of(item_neighbors.rows, history)
            cands == candidates(nb, history)
            recs == call.out.recommendations
            returned == {recs[i].movieId : i \in 1..Len(recs)}
        IN /\ Len(recs) = Min(n_reco, Cardinality(cands))
           /\ returned \subseteq cands
           /\ \A i, j \in 1..Len(recs) : i < j => ~PlainLT(recs[i].score, recs[j].score)
           /\ \A c \in cands \ returned :
                 \A i \in 1..Len(recs) : ~PlainLT(recs[i].score, score_of(group(nb, c), history))

----------------------------------------------------------------------------
(* Claims on training (SpecTrain) *)

\* C4: publication is all-or-nothing: when the run fails at any step, no
\* published artifact (registered model version, item_neighbors table,
\* movie_popularity table) has been replaced
C4_FailedRunPublishesNothing ==
    tpc = "failed" => registry = before.registry /\ published = before.published

InvalidConfig == k_neighbors <= 0 \/ min_ratings <= 0

\* C8: a call with an invalid configuration is rejected before any
\* computation: no ratings loaded, no popularity or neighbor table computed,
\* nothing published
C8_InvalidConfigRejectedEagerly ==
    InvalidConfig =>
        /\ ~run.loaded
        /\ DOMAIN run.movie_popularity = {}
        /\ Len(run.item_neighbors_df) = 0
        /\ registry = before.registry
        /\ published = before.published

\* C9: in the neighbor table of a run every source movie has at most
\* k_neighbors rows and no row has neighborMovieId = movieId, also when
\* distinct movies have identical rating vectors
C9_AtMostKNeighborsNoSelf ==
    LET df == run.item_neighbors_df
    IN k_neighbors >= 1 =>
          /\ \A i \in 1..Len(df) : df[i].neighborMovieId # df[i].movieId
          /\ \A m \in TrainItems : Cardinality({i \in 1..Len(df) : df[i].movieId = m}) <= k_neighbors

----------------------------------------------------------------------------
(* Claims on publication and concurrent requests (SpecPub) *)

Snapshots == {NeverTrained, OldSnapshot, NewSnapshot}

\* C5: a request that interleaves with the publication of a new training
\* result computes its answer from one consistent snapshot: the complete
\* previous tables or the complete new ones (or none before the first
\* training), never a partially written table nor tables of two runs
C5_RequestSeesOneSnapshot ==
    \A r \in Requests :
        req[r].pc = "done" =>
            /\ req[r].seen \in Snapshots
            /\ req[r].out \in recommend_for_user(req[r].h, req[r].seen.item_neighbors,
                                                req[r].seen.movie_popularity, n_reco, min_user_ratings)

\* a request that read the user's ratings while the transaction was open
\* and answered with personalised recommendations from the new tables
C5_Witness ==
    \E r \in Requests :
        /\ req[r].pc = "done"
        /\ req[r].during
        /\ req[r].seen = NewSnapshot
        /\ req[r].out.kind = "ok"
        /\ req[r].out.strategy = "item_based_cf"

----------------------------------------------------------------------------
(* More claims on training (SpecTrain) *)

EmptyRatingSet == ratings.exists /\ DOMAIN ratings.rows = {}

\* C11: training on an empty rating set does not raise: no step of the
\* computation (split, matrix, neighbors) fails, and a finished run has an
\* empty neighbor table
C11_EmptyRatingSetDoesNotRaise ==
    (EmptyRatingSet /\ k_neighbors >= 1 /\ min_ratings >= 1) =>
        /\ run.failed_at \notin {"split", "knn"}
        /\ tpc = "done" => Len(run.item_neighbors_df) = 0

----------------------------------------------------------------------------
(* SpecTwice: train_item_based_cf run several times on one rating set with *)
(* one configuration.  What the libraries leave open (which rows the       *)
(* seeded shuffle holds out, the order of kneighbors among rows at equal   *)
(* distance) is drawn by the first run; a later run repeats a draw exactly *)
(* when the code gives the library the same inputs and the same seed.      *)

MaxRuns == 2

random_state == 42

NothingDrawn == [split |-> FALSE, rows |-> {}, test |-> {}, knn |-> FALSE, train |-> {}, df |-> <<>>]

\* the split is not seeded: every call draws again
train_test_split_unseeded(K, rs, drawn) == test_sides(K)

\* train_test_split(ratings, test_size=0.2, random_state=rs): with an
\* integer seed the shuffle is a function of the seed and of the rows, so a
\* call on the same rows repeats the earlier draw
train_test_split(K, rs, drawn) ==
    IF rs \in Nat /\ drawn.split /\ drawn.rows = K THEN {drawn.test} ELSE test_sides(K)

\* NearestNeighbors(algorithm="brute").fit(X_iu).kneighbors(X_iu): brute
\* force computes the same answer for the same matrix and the same k
fit_kneighbors(R, train, k, drawn) ==
    IF drawn.knn /\ drawn.train = train THEN {drawn.df} ELSE item_neighbors_dfs(R, train, k)

RunFailed(step, pop) == [ok |-> FALSE, failed_at |-> step, movie_popularity |-> pop, item_neighbors |-> <<>>]

\* steps 2 to 5 of one run: the pairs <<tables of the run, draws made so far>>
train_tables(R, k, mr, drawn) ==
    LET pop == compute_bayesian_popularity(R)
        kept == DOMAIN filter_ratings(R, mr)
    IN IF test_sides(kept) = {} THEN {<<RunFailed("split", pop), drawn>>}
       ELSE UNION {
              LET train == kept \ T
                  d1 == [drawn EXCEPT !.split = TRUE, !.rows = kept, !.test = T]
              IN IF knn_raises(train, k) THEN {<<RunFailed("knn", pop), d1>>}
                 ELSE {<<[ok |-> TRUE, failed_at |-> "none", movie_popularity |-> pop, item_neighbors |-> df],
                         [d1 EXCEPT !.knn = TRUE, !.train = train, !.df = df]>> :
                          df \in fit_kneighbors(R, train, k, d1)}
              : T \in train_test_split(kept, random_state, drawn)}

InitTwice ==
    /\ arg \in [ratings : RatingSets, k_neighbors : 1..MaxK, min_ratings : 0..MaxMinRatings]
    /\ ret = [runs |-> <<>>, drawn |-> NothingDrawn]
    /\ ServeIdle
    /\ TrainIdle
    /\ PubIdle

\* one more run of train_item_based_cf(k_neighbors, min_ratings) on the same file
TrainAgain ==
    /\ Len(ret.runs) < MaxRuns
    /\ \E o \in train_tables(arg.ratings, arg.k_neighbors, arg.min_ratings, ret.drawn) :
          ret' = [runs |-> Append(ret.runs, o[1]), drawn |-> o[2]]
    /\ UNCHANGED <<arg, serveVars, trainVars, pubVars>>

NextTwice == TrainAgain

SpecTwice == InitTwice /\ [][NextTwice]_vars

----------------------------------------------------------------------------
(* SpecMetrics: the ranking metrics applied to bounded lists.  A metric    *)
(* depends only on which positions of the list hold a relevant item, so    *)
(* the lists are <<1, ..., n>> and the relevant sets range over all sets.  *)

MaxRecos == 11          \* lists of up to this many distinct items
MaxMetricItem == 12     \* relevant items are among 1..MaxMetricItem

\* evaluation.precision_at_k
precision_at_k(recommended_items, relevant_items, k) ==
    IF k = 0 THEN <<0, 1>>
    ELSE <<Cardinality(Range(Head_n(recommended_items, k)) \cap relevant_items), k>>

InitMetrics ==
    /\ arg \in [recos : {[i \in 1..n |-> i] : n \in 0..MaxRecos},
                truth_set : SUBSET (1..MaxMetricItem)]
    /\ ret = [done |-> FALSE]
    /\ ServeIdle
    /\ TrainIdle
    /\ PubIdle

\* the three appends of the evaluation loop, and precision_at_k(., ., 10)
ComputeMetrics ==
    /\ ~ret.done
    /\ ret' = [done |-> TRUE,
               recall |-> recall_at_10(arg.recos, arg.truth_set),
               ndcg |-> ndcg_at_10(arg.recos, arg.truth_set),
               precision |-> precision_at_10(arg.recos, arg.truth_set),
               precision_k |-> precision_at_k(arg.recos, arg.truth_set, eval_k)]
    /\ UNCHANGED <<arg, serveVars, trainVars, pubVars>>

NextMetrics == ComputeMetrics

SpecMetrics == InitMetrics /\ [][NextMetrics]_vars

\* the fraction <<num, den>> is a number of [0, 1]
InUnitInterval(f) == f[2] > 0 /\ 0 <= f[1] /\ f[1] <= f[2]

\* C13: for every list of distinct items and every non-empty relevant set,
\* recall@10, precision@10 and ndcg@10 are in [0, 1]
C13_MetricsInUnitInterval ==
    (ret.done /\ arg.truth_set # {}) =>
        /\ InUnitInterval(ret.recall)
        /\ InUnitInterval(ret.precision)
        /\ InUnitInterval(ret.precision_k)
        /\ InUnitInterval(ret.ndcg)

\* a list longer than 10 whose items are all relevant, with relevant items
\* the list misses: precision is 1 and recall is below 1
C13_Witness ==
    /\ ret.done
    /\ Len(arg.recos) > 10
    /\ Range(arg.recos) \subseteq arg.truth_set
    /\ Cardinality(arg.truth_set) > Len(arg.recos)
    /\ ret.precision = <<10, 10>>
    /\ ret.ndcg[1] = ret.ndcg[2]
    /\ ret.recall[1] < ret.recall[2]

----------------------------------------------------------------------------
(* More claims on training (SpecTrain), continued *)

rating_count(m) == Cardinality({key \in DOMAIN ratings.rows : key[2] = m})

PastSplit == tpc \in {"split", "neighbors", "evaluated", "artifacts", "registered", "done"}

\* C14: the popularity table has one record for every movie with at least
\* one rating in the full input, those with fewer than min_ratings ratings
\* included, and the neighbor table has source movies only among the movies
\* with at least min_ratings ratings in the full input
C14_PopularityUnfilteredNeighborsFiltered ==
    PastSplit =>
        /\ DOMAIN run.movie_popularity = {m \in TrainItems : rating_count(m) >= 1}
        /\ \A i \in 1..Len(run.item_neighbors_df) :
              rating_count(run.item_neighbors_df[i].movieId) >= min_ratings
        /\ tpc = "done" =>
              /\ published.movie_popularity = run.movie_popularity
              /\ published.item_neighbors = run.item_neighbors_df

\* a finished run whose popularity table holds a movie that the min_ratings
\* filter removed, and whose neighbor table is not empty
C14_Witness ==
    /\ tpc = "done"
    /\ \E m \in DOMAIN run.movie_popularity : rating_count(m) < min_ratings
    /\ Len(run.item_neighbors_df) > 0

----------------------------------------------------------------------------
(* SpecBayes: compute_bayesian_popularity on a rating set, and again after *)
(* one movie has received one more rating that leaves its mean unchanged   *)

InitBayes ==
    /\ arg \in [ratings : RatingSets \ {<<>>}]
    /\ ret = [tables |-> <<>>, ratings |-> <<>>, movie |-> 0]
    /\ ServeIdle
    /\ TrainIdle
    /\ PubIdle

\* movie_popularity = compute_bayesian_popularity(ratings)
ComputePopularity ==
    /\ ret.tables = <<>>
    /\ ret' = [ret EXCEPT !.tables = <<compute_bayesian_popularity(arg.ratings)>>,
                          !.ratings = <<arg.ratings>>]
    /\ UNCHANGED <<arg, serveVars, trainVars, pubVars>>

\* the same file with one more row for movie m, rated at the mean of m
ComputeWithOneMoreRating ==
    /\ Len(ret.tables) = 1
    /\ \E key \in RowKeys \ DOMAIN arg.ratings, v \in TrainRatingValues :
          LET m == key[2]
              old == ret.tables[1]
              R2 == (key :> v) @@ arg.ratings
          IN /\ m \in DOMAIN old
             /\ v * old[m].mean_rating[2] = old[m].mean_rating[1]
             /\ ret' = [tables |-> Append(ret.tables, compute_bayesian_popularity(R2)),
                        ratings |-> Append(ret.ratings, R2),
                        movie |-> m]
    /\ UNCHANGED <<arg, serveVars, trainVars, pubVars>>

NextBayes == ComputePopularity \/ ComputeWithOneMoreRating

SpecBayes == InitBayes /\ [][NextBayes]_vars

\* fractions <<num, den>> with den > 0
FracLE(a, b) == a[1] * b[2] <= b[1] * a[2]
FracDist(a, b) == <<Abs(a[1] * b[2] - b[1] * a[2]), a[2] * b[2]>>

\* M: the mean over the movies of the per-movie mean ratings
global_prior(R) ==
    LET ms == SortedIds(movies_of(DOMAIN R))
        mean(m) == <<SumOver(rows_of_movie(DOMAIN R, m), [k \in rows_of_movie(DOMAIN R, m) |-> R[k]]),
                     Cardinality(rows_of_movie(DOMAIN R, m))>>
        total == SumFractions([i \in 1..Len(ms) |-> mean(ms[i])])
    IN <<total[1], total[2] * Len(ms)>>

Between(x, a, b) == (FracLE(a, x) /\ FracLE(x, b)) \/ (FracLE(b, x) /\ FracLE(x, a))

\* C15: for every movie of every non-empty rating set, bayes_score lies in
\* the closed interval between the movie's mean rating and the prior M, and
\* with the mean fixed it does not move away from the mean as count grows
C15_BayesScoreBetweenMeanAndPrior ==
    /\ \A t \in 1..Len(ret.tables) : \A m \in DOMAIN ret.tables[t] :
          /\ ret.tables[t][m].bayes_score[2] > 0
          /\ Between(ret.tables[t][m].bayes_score, ret.tables[t][m].mean_rating,
                     global_prior(ret.ratings[t]))
    /\ Len(ret.tables) = 2 =>
          LET a == ret.tables[1][ret.movie]
              b == ret.tables[2][ret.movie]
          IN /\ b.n_ratings = a.n_ratings + 1
             /\ FracLE(FracDist(b.bayes_score, b.mean_rating), FracDist(a.bayes_score, a.mean_rating))

\* a movie whose mean differs from the prior, scored strictly between the
\* two, and strictly closer to its mean once it has one more rating
C15_Witness ==
    /\ Len(ret.tables) = 2
    /\ LET a == ret.tables[1][ret.movie]
           b == ret.tables[2][ret.movie]
           M == global_prior(ret.ratings[1])
       IN /\ ~FracLE(M, a.mean_rating)
          /\ ~FracLE(a.bayes_score, a.mean_rating)
          /\ ~FracLE(M, a.bayes_score)
          /\ ~FracLE(FracDist(a.bayes_score, a.mean_rating), FracDist(b.bayes_score, b.mean_rating))

----------------------------------------------------------------------------
(* SpecSplit: the evaluation splits of train_model2 and train_model on     *)
(* rating rows that carry a timestamp                                      *)

MaxTime == 2            \* timestamps are 1..MaxTime

\* train_model.__main__: ratings.sample(frac=1.0, random_state=42), then the
\* int(0.8*n) first rows train and the others test; the shuffle ignores the
\* timestamps, so the held-out rows are any n - int(0.8*n) rows
sample_split(K) ==
    {T \in SUBSET K : Cardinality(T) = Cardinality(K) - ((8 * Cardinality(K)) \div 10)}

InitSplit ==
    /\ \E K \in {S \in SUBSET RowKeys : Cardinality(S) <= MaxRows} :
          arg \in [rows : {K}, timestamp : [K -> 1..MaxTime]]
    /\ ret = [done |-> FALSE, by |-> "none", train |-> {}, test |-> {}]
    /\ ServeIdle
    /\ TrainIdle
    /\ PubIdle

\* train_model2: read_parquet(columns=["userId", "movieId", "rating"]) does
\* not load the timestamps; train_test_split(test_size=0.2, random_state=42)
SplitTrainModel2 ==
    /\ ~ret.done
    /\ \E T \in test_sides(arg.rows) :
          ret' = [done |-> TRUE, by |-> "train_model2", train |-> arg.rows \ T, test |-> T]
    /\ UNCHANGED <<arg, serveVars, trainVars, pubVars>>

\* train_model: shuffle, then cut at 80 %
SplitTrainModel ==
    /\ ~ret.done
    /\ \E T \in sample_split(arg.rows) :
          ret' = [done |-> TRUE, by |-> "train_model", train |-> arg.rows \ T, test |-> T]
    /\ UNCHANGED <<arg, serveVars, trainVars, pubVars>>

NextSplit == SplitTrainModel2 \/ SplitTrainModel

SpecSplit == InitSplit /\ [][NextSplit]_vars

\* C16: the split is chronological per user: for every user, no rating of
\* the training side is newer than a rating of that user on the held-out side
C16_SplitIsChronologicalPerUser ==
    ret.done =>
        \A a \in ret.train, b \in ret.test :
            a[1] = b[1] => arg.timestamp[a] <= arg.timestamp[b]

----------------------------------------------------------------------------
(* SpecSimilar: predict_model.recommend_similar_movies and POST /predict   *)
(* on bounded feature matrices                                             *)

MaxSimMovies == 3       \* movie_matrix holds the movies 1..n, n <= MaxSimMovies
MaxTopN == 2            \* top_n ranges over 1..MaxTopN

\* non-zero feature rows; equal and parallel rows are at cosine distance 0
FeatureVectors == {<<1, 0>>, <<0, 1>>, <<1, 1>>, <<2, 2>>}

MovieMatrices == UNION {[1..n -> FeatureVectors] : n \in 1..MaxSimMovies}

\* the dot products of the rows of X = movie_matrix.drop("movieId", axis=1)
FeatureDots(movie_matrix) ==
    [p \in (DOMAIN movie_matrix) \X (DOMAIN movie_matrix) |->
        movie_matrix[p[1]][1] * movie_matrix[p[2]][1] + movie_matrix[p[1]][2] * movie_matrix[p[2]][2]]

\* the query movie is removed by dropping the first neighbor
recommend_similar_movies_drop_first(movie_matrix, movie_id, top_n) ==
    IF movie_id \notin DOMAIN movie_matrix THEN {Raise("ValueError")}
    ELSE IF top_n + 1 > Cardinality(DOMAIN movie_matrix) THEN {Raise("ValueError")}
    ELSE {[kind |-> "ok", movieId |-> movie_id, top_n |-> top_n,
           recommendations |-> Head_n(Tail(indices), top_n)] :
             indices \in kneighbors(FeatureDots(movie_matrix), DOMAIN movie_matrix, movie_id, top_n + 1)}

\* recommend_similar_movies(movie_id, top_n): the set of outcomes.
\* ValueError when the movie is not in the matrix, and from kneighbors when
\* top_n + 1 exceeds the number of rows; else the top_n + 1 nearest rows
\* without the rows whose movieId is movie_id, cut to top_n
recommend_similar_movies(movie_matrix, movie_id, top_n) ==
    IF movie_id \notin DOMAIN movie_matrix THEN {Raise("ValueError")}
    ELSE IF top_n + 1 > Cardinality(DOMAIN movie_matrix) THEN {Raise("ValueError")}
    ELSE {[kind |-> "ok", movieId |-> movie_id, top_n |-> top_n,
           recommendations |->
              Head_n(SelectSeq(indices, LAMBDA rec_movie_id : rec_movie_id # movie_id), top_n)] :
             indices \in kneighbors(FeatureDots(movie_matrix), DOMAIN movie_matrix, movie_id, top_n + 1)}

\* main.predict: POST /predict; ValueError becomes HTTP 400
predict(movie_matrix, movie_id, top_n) ==
    {IF out.kind = "raise" THEN HTTP(400, out.error)
     ELSE [kind |-> "http", status |-> 200, body |-> out] :
        out \in recommend_similar_movies(movie_matrix, movie_id, top_n)}

InitSimilar ==
    /\ arg \in [movie_matrix : MovieMatrices, movie_id : 1..(MaxSimMovies + 1), top_n : 1..MaxTopN]
    /\ ret = [op |-> "none"]
    /\ ServeIdle
    /\ TrainIdle
    /\ PubIdle

CallRecommendSimilarMovies ==
    /\ ret.op = "none"
    /\ \E out \in recommend_similar_movies(arg.movie_matrix, arg.movie_id, arg.top_n) :
          ret' = [op |-> "recommend_similar_movies", out |-> out]
    /\ UNCHANGED <<arg, serveVars, trainVars, pubVars>>

CallPredictEndpoint ==
    /\ ret.op = "none"
    /\ \E out \in predict(arg.movie_matrix, arg.movie_id, arg.top_n) :
          ret' = [op |-> "POST /predict", out |-> out]
    /\ UNCHANGED <<arg, serveVars, trainVars, pubVars>>

NextSimilar == CallRecommendSimilarMovies \/ CallPredictEndpoint

SpecSimilar == InitSimilar /\ [][NextSimilar]_vars

SimilarResult ==
    IF ret.op = "recommend_similar_movies" /\ ret.out.kind = "ok" THEN {ret.out}
    ELSE IF ret.op = "POST /predict" /\ ret.out.status = 200 THEN {ret.out.body}
    ELSE {}

\* C17: recommend_similar_movies(movie_id, top_n) never lists movie_id
\* itself and returns at most top_n recommendations, also when other movies
\* have a feature vector identical to that of the query movie
C17_SimilarMoviesExcludeQuery ==
    \A r \in SimilarResult :
        /\ Len(r.recommendations) <= arg.top_n
        /\ \A i \in 1..Len(r.recommendations) : r.recommendations[i] # arg.movie_id

\* a query movie with an identical twin in the matrix, and top_n
\* recommendations returned, the twin among them
C17_Witness ==
    \E r \in SimilarResult :
        /\ Len(r.recommendations) = arg.top_n
        /\ \E i \in 1..Len(r.recommendations) :
              arg.movie_matrix[r.recommendations[i]] = arg.movie_matrix[arg.movie_id]

----------------------------------------------------------------------------
(* SpecMonitoring: data_monitoring.run_monitoring and the backfill, run    *)
(* any number of times over unchanged ratings.  Time is counted in days;   *)
(* a metric value is a sequence of integers: <<n>> a count, <<num, den>> a *)
(* quotient, <<>> NULL, and for a PSI the counts it is computed from.      *)

MaxDay == 5             \* rating timestamps are the days 1..MaxDay
MaxMonRows == 2         \* at most this many rows in raw_ratings
MaxMonRuns == 2         \* at most this many runs
DaysPerMonth == 2       \* the calendar, scaled down
MonthsPerYear == 2

MonRatingValues == {4, 5}
Genres == {"Action", "Drama"}
\* raw_movies.genres
raw_movies == (1 :> {"Action"}) @@ (2 :> {"Action", "Drama"})

MonRows == [userId : 1..MaxUser, movieId : DOMAIN raw_movies, rating : MonRatingValues, timestamp : 1..MaxDay]

RECURSIVE SetsUpTo(_, _)
\* the subsets of S of at most n elements
SetsUpTo(S, n) ==
    IF n = 0 THEN {{}}
    ELSE LET smaller == SetsUpTo(S, n - 1) IN smaller \cup {T \cup {x} : T \in smaller, x \in S}

month_of(d) == ((d - 1) \div DaysPerMonth) + 1
year_of(d) == ((d - 1) \div (DaysPerMonth * MonthsPerYear)) + 1

day_bounds(d) == [start |-> d, end |-> d + 1]
month_bounds(ym) == [start |-> (ym - 1) * DaysPerMonth + 1, end |-> ym * DaysPerMonth + 1]
year_bounds(y) ==
    [start |-> (y - 1) * DaysPerMonth * MonthsPerYear + 1, end |-> y * DaysPerMonth * MonthsPerYear + 1]

Metric(period_type, period_value, metric_name, metric_value) ==
    [period_type |-> period_type, period_value |-> period_value,
     metric_name |-> metric_name, metric_value |-> metric_value]

SameKey(a, b) ==
    /\ a.period_type = b.period_type
    /\ a.period_value = b.period_value
    /\ a.metric_name = b.metric_name

\* plain INSERT for each metric: rows are added whether or not their key
\* is already in the table
insert_metrics(table, metrics) == table \o metrics

\* upsert_metric for each metric of the sequence, in order: INSERT ... ON
\* CONFLICT (period_type, period_value, metric_name) DO UPDATE SET
\* metric_value.  A row of the table whose key is written takes the last
\* value written for it; a key that is not in the table gets one new row,
\* at its first write, with the last value written for it
upsert_metrics(table, metrics) ==
    LET last_of(row, writes) == IF writes = {} THEN row
                                ELSE metrics[CHOOSE i \in writes : \A k \in writes : k <= i]
        last(row) == last_of(row, {i \in 1..Len(metrics) : SameKey(metrics[i], row)})
        updated == [i \in 1..Len(table) |-> last(table[i])]
        fresh == SelectSeq([i \in 1..Len(metrics) |-> <<i, metrics[i]>>],
                           LAMBDA im : /\ \A k \in 1..Len(table) : ~SameKey(table[k], im[2])
                                       /\ \A k \in 1..(im[1] - 1) : ~SameKey(metrics[k], im[2]))
    IN updated \o [i \in 1..Len(fresh) |-> last(fresh[i][2])]

\* WHERE "timestamp" >= :start AND "timestamp" < :end
in_period(R, b) == {r \in R : r.timestamp >= b.start /\ r.timestamp < b.end}

\* SELECT COUNT(*) FROM (SELECT key, MIN("timestamp") ...) WHERE first_ts in the period
first_seen_in(R, b, key(_)) ==
    Cardinality({key(r) : r \in {x \in R : /\ x.timestamp >= b.start /\ x.timestamp < b.end
                                           /\ \A y \in R : key(y) = key(x) => y.timestamp >= x.timestamp}})

user_key(r) == r.userId
movie_key(r) == r.movieId
pair_key(r) == <<r.userId, r.movieId>>

\* each compute_ function below is the sequence of metrics it upserts

compute_core(period_type, period_value, b, R) ==
    LET P == in_period(R, b)
    IN << Metric(period_type, period_value, "nb_notes", <<Cardinality(P)>>),
          Metric(period_type, period_value, "nb_users", <<Cardinality({r.userId : r \in P})>>),
          Metric(period_type, period_value, "nb_movies", <<Cardinality({r.movieId : r \in P})>>),
          Metric(period_type, period_value, "avg_rating",
                 IF P = {} THEN <<>> ELSE <<SumOver(P, [r \in P |-> r.rating]), Cardinality(P)>>),
          Metric(period_type, period_value, "nb_new_users", <<first_seen_in(R, b, user_key)>>),
          Metric(period_type, period_value, "nb_new_movies", <<first_seen_in(R, b, movie_key)>>),
          Metric(period_type, period_value, "nb_new_ratings", <<first_seen_in(R, b, pair_key)>>) >>

\* str(rating).replace(".", "_")
rating_label == (4 :> "pct_rating_4_0") @@ (5 :> "pct_rating_5_0")
genre_label == [g \in Genres |-> IF g = "Action" THEN "pct_genre_Action" ELSE "pct_genre_Drama"]

\* one metric per rating value present in the period: pct = cnt / total * 100
compute_rating_distribution(period_type, period_value, b, R) ==
    LET P == in_period(R, b)
        present == SortedIds({r.rating : r \in P})
    IN [i \in 1..Len(present) |->
          Metric(period_type, period_value, rating_label[present[i]],
                 <<100 * Cardinality({r \in P : r.rating = present[i]}), Cardinality(P)>>)]

\* the rating rows of the period joined with the genres of their movie
genre_count(P, g) == Cardinality({r \in P : g \in raw_movies[r.movieId]})

\* avg_genres_per_movie, then one metric per genre present in the period
compute_genres(period_type, period_value, b, R) ==
    LET P == in_period(R, b)
        noted == {r.movieId : r \in P}
        total == genre_count(P, "Action") + genre_count(P, "Drama")
        avg == IF noted = {} THEN <<>>
               ELSE <<SumOver(noted, [m \in noted |-> Cardinality(raw_movies[m])]), Cardinality(noted)>>
        pct(g) == IF genre_count(P, g) = 0 THEN <<>>
                  ELSE <<Metric(period_type, period_value, genre_label[g], <<100 * genre_count(P, g), total>>)>>
    IN <<Metric(period_type, period_value, "avg_genres_per_movie", avg)>> \o pct("Action") \o pct("Drama")

\* PSI of the current period against the reference period: NULL when no
\* category has a row in either, else a function of the counts per category
compute_psi(period_type, period_value, cur_bounds, ref_bounds, metric_name, join_genres, R) ==
    LET C == in_period(R, cur_bounds)
        F == in_period(R, ref_bounds)
        counts == IF join_genres
                  THEN <<genre_count(C, "Action"), genre_count(C, "Drama"),
                         genre_count(F, "Action"), genre_count(F, "Drama")>>
                  ELSE <<Cardinality({r \in C : r.rating = 4}), Cardinality({r \in C : r.rating = 5}),
                         Cardinality({r \in F : r.rating = 4}), Cardinality({r \in F : r.rating = 5})>>
    IN <<Metric(period_type, period_value, metric_name, IF counts = <<0, 0, 0, 0>> THEN <<>> ELSE counts)>>

\* the monthly or yearly block of run_monitoring and of the backfill
period_block(period_type, period_value, b, prev, psi_rating, psi_genre, R) ==
    compute_core(period_type, period_value, b, R)
    \o compute_rating_distribution(period_type, period_value, b, R)
    \o compute_genres(period_type, period_value, b, R)
    \o compute_psi(period_type, period_value, b, prev, psi_rating, FALSE, R)
    \o compute_psi(period_type, period_value, b, prev, psi_genre, TRUE, R)

\* run_monitoring(reference_date): the metrics of yesterday, of its month
\* and of its year, upserted into the table
run_monitoring(table, reference_date, R) ==
    LET yesterday == reference_date - 1
        ym == month_of(yesterday)
        y == year_of(yesterday)
    IN upsert_metrics(table,
          compute_core("daily", yesterday, day_bounds(yesterday), R)
          \o period_block("monthly", ym, month_bounds(ym), month_bounds(ym - 1),
                          "psi_rating_prev_month", "psi_genre_prev_month", R)
          \o period_block("yearly", y, year_bounds(y), year_bounds(y - 1),
                          "psi_rating_prev_year", "psi_genre_prev_year", R))

RECURSIVE backfill_yearly(_, _)
backfill_yearly(year, R) ==
    IF year > year_of(MaxDay) THEN <<>>
    ELSE period_block("yearly", year, year_bounds(year), year_bounds(year - 1),
                      "psi_rating_prev_year", "psi_genre_prev_year", R)
         \o backfill_yearly(year + 1, R)

RECURSIVE backfill_monthly(_, _)
backfill_monthly(ym, R) ==
    IF ym > month_of(MaxDay) THEN <<>>
    ELSE period_block("monthly", ym, month_bounds(ym), month_bounds(ym - 1),
                      "psi_rating_prev_month", "psi_genre_prev_month", R)
         \o backfill_monthly(ym + 1, R)

RECURSIVE backfill_daily(_, _)
backfill_daily(current, R) ==
    IF current > MaxDay + 1 THEN <<>>
    ELSE compute_core("daily", current - 1, day_bounds(current - 1), R) \o backfill_daily(current + 1, R)

\* backfill_monitoring.__main__: the years, the months, then the days
backfill(table, R) ==
    upsert_metrics(table, backfill_yearly(1, R) \o backfill_monthly(1, R) \o backfill_daily(2, R))

InitMonitoring ==
    /\ arg \in [raw_ratings : SetsUpTo(MonRows, MaxMonRows),
                reference_date : (MaxDay - 1)..(MaxDay + 1)]
    \* ensure_monitoring_table: the table exists and is empty
    /\ ret = [monitoring_metrics |-> <<>>, ran |-> {}, runs |-> 0]
    /\ ServeIdle
    /\ TrainIdle
    /\ PubIdle

RunMonitoring ==
    /\ ret.runs < MaxMonRuns
    /\ ret' = [monitoring_metrics |-> run_monitoring(ret.monitoring_metrics, arg.reference_date, arg.raw_ratings),
               ran |-> ret.ran \cup {"run_monitoring"},
               runs |-> ret.runs + 1]
    /\ UNCHANGED <<arg, serveVars, trainVars, pubVars>>

RunBackfill ==
    /\ ret.runs < MaxMonRuns
    /\ ret' = [monitoring_metrics |-> backfill(ret.monitoring_metrics, arg.raw_ratings),
               ran |-> ret.ran \cup {"backfill"},
               runs |-> ret.runs + 1]
    /\ UNCHANGED <<arg, serveVars, trainVars, pubVars>>

NextMonitoring == RunMonitoring \/ RunBackfill

SpecMonitoring == InitMonitoring /\ [][NextMonitoring]_vars

Keys(table) == {<<table[i].period_type, table[i].period_value, table[i].metric_name>> : i \in 1..Len(table)}

\* the table a single run of the operation leaves, starting from the empty table
SingleRun(op) ==
    IF op = "backfill" THEN backfill(<<>>, arg.raw_ratings)
    ELSE run_monitoring(<<>>, arg.reference_date, arg.raw_ratings)

\* C18: whatever the number of runs of run_monitoring (or of the backfill)
\* for one reference date over unchanged ratings, raw.monitoring_metrics has
\* at most one row per (period_type, period_value, metric_name) and holds
\* exactly the rows and values that single runs leave
C18_MonitoringIsIdempotent ==
    /\ Cardinality(Keys(ret.monitoring_metrics)) = Len(ret.monitoring_metrics)
    /\ Range(ret.monitoring_metrics) = UNION {Range(SingleRun(op)) : op \in ret.ran}

\* the daily job after the backfill, over ratings that fall in
\* the periods of the reference date
C18_Witness ==
    /\ ret.runs = 2
    /\ ret.ran = {"run_monitoring", "backfill"}
    /\ \E i \in 1..Len(ret.monitoring_metrics) :
          /\ ret.monitoring_metrics[i].period_type = "daily"
          /\ ret.monitoring_metrics[i].metric_name = "nb_notes"
          /\ ret.monitoring_metrics[i].period_value = arg.reference_date - 1
          /\ ret.monitoring_metrics[i].metric_value = <<2>>

\* ---------------------------------------------------------------------
\* run_data_monitoring_pipeline: the quality checks, then the KPI and
\* drift monitoring, then the global status
\* ---------------------------------------------------------------------

NChecks == 5            \* run_quality_checks executes five checks
MaxErrorCount == 1      \* a check counts at most this many faulty rows

\* what the database does during one pipeline run: the number of faulty
\* rows each check counts, whether CREATE TABLE fails, the check whose
\* statement fails (0: none), whether a statement of run_monitoring fails
Databases ==
    [error_count : [1..NChecks -> 0..MaxErrorCount],
     create_table_fails : BOOLEAN,
     failing_check : 0..NChecks,
     monitoring_fails : BOOLEAN]

Returned(value) == [raised |-> FALSE, value |-> value]
Raised(type) == [raised |-> TRUE, value |-> [status |-> type, checks |-> <<>>]]

\* status = "OK" if value == 0 else "FAIL"
execute_check(db, i) == [check_name |-> i, error_count |-> db.error_count[i],
                         status |-> IF db.error_count[i] = 0 THEN "OK" ELSE "FAIL"]

\* ensure_quality_table is outside the try block: its error leaves the
\* function.  A SQLAlchemyError inside the block returns FAILED with the
\* checks executed so far; else FAILED when a check has status FAIL
run_quality_checks(db) ==
    IF db.create_table_fails THEN Raised("SQLAlchemyError")
    ELSE IF db.failing_check # 0
    THEN Returned([status |-> "FAILED",
                   checks |-> [i \in 1..(db.failing_check - 1) |-> execute_check(db, i)]])
    ELSE LET results == [i \in 1..NChecks |-> execute_check(db, i)]
             failed == SelectSeq(results, LAMBDA c : c.status = "FAIL")
         IN Returned([status |-> IF Len(failed) = 0 THEN "SUCCESS" ELSE "FAILED", checks |-> results])

\* run_monitoring as the pipeline sees it: a database error leaves the
\* function, else the result has status SUCCESS
monitoring_result(db) ==
    IF db.monitoring_fails THEN Raised("SQLAlchemyError")
    ELSE Returned([status |-> "SUCCESS", checks |-> <<>>])

\* only the monitoring status counts
global_status_monitoring_only(quality_status, monitoring_status) ==
    IF monitoring_status = "FAILED" THEN "FAILED" ELSE "SUCCESS"

\* SUCCESS unless the quality status or the monitoring status is FAILED
global_status(quality_status, monitoring_status) ==
    IF monitoring_status = "FAILED" THEN "FAILED"
    ELSE IF quality_status = "FAILED" THEN "FAILED"
    ELSE "SUCCESS"

\* the report at the start of the pipeline; at is the stage about to run
\* and called lists the stage functions called so far
InitPipeline ==
    /\ arg \in Databases
    /\ ret = [at |-> "quality", called |-> <<>>,
              quality_status |-> "NOT_RUN", monitoring_status |-> "NOT_RUN", status |-> "UNKNOWN"]
    /\ ServeIdle
    /\ TrainIdle
    /\ PubIdle

\* try: run_quality_checks() / except Exception: quality_status = FAILED
QualityChecks ==
    /\ ret.at = "quality"
    /\ LET quality_result == run_quality_checks(arg)
       IN ret' = [ret EXCEPT !.at = "monitoring",
                             !.called = Append(@, "run_quality_checks"),
                             !.quality_status = IF quality_result.raised THEN "FAILED"
                                                ELSE quality_result.value.status]
    /\ UNCHANGED <<arg, serveVars, trainVars, pubVars>>

\* try: run_monitoring(reference_date) / except Exception: monitoring_status = FAILED
MonitoringKpiDrift ==
    /\ ret.at = "monitoring"
    /\ LET result == monitoring_result(arg)
       IN ret' = [ret EXCEPT !.at = "status",
                             !.called = Append(@, "run_monitoring"),
                             !.monitoring_status = IF result.raised THEN "FAILED"
                                                   ELSE result.value.status]
    /\ UNCHANGED <<arg, serveVars, trainVars, pubVars>>

\* the global status, and the return of the report
GlobalStatus ==
    /\ ret.at = "status"
    /\ ret' = [ret EXCEPT !.at = "returned",
                          !.status = global_status(ret.quality_status, ret.monitoring_status)]
    /\ UNCHANGED <<arg, serveVars, trainVars, pubVars>>

NextPipeline == QualityChecks \/ MonitoringKpiDrift \/ GlobalStatus

SpecPipeline == InitPipeline /\ [][NextPipeline]_vars

\* the quality stage ended FAILED: by exception, by a failed statement, or
\* by a check that counted faulty rows
QualityEndedFailed ==
    \/ arg.create_table_fails
    \/ arg.failing_check # 0
    \/ \E i \in 1..NChecks : arg.error_count[i] > 0

\* C19: run_data_monitoring_pipeline lets no exception of a stage out,
\* runs the monitoring stage after the quality stage whatever the quality
\* outcome, and returns FAILED exactly when the quality stage or the
\* monitoring stage ended FAILED, SUCCESS otherwise
C19_PipelineAlwaysReportsBothStages ==
    /\ ret.at \in {"quality", "monitoring", "status", "returned"}
    /\ ret.at \in {"status", "returned"} =>
          /\ ret.called = <<"run_quality_checks", "run_monitoring">>
          /\ ret.monitoring_status \in {"SUCCESS", "FAILED"}
          /\ ret.monitoring_status = "FAILED" <=> arg.monitoring_fails
          /\ ret.quality_status = "FAILED" <=> QualityEndedFailed
    /\ ret.at = "returned" =>
          /\ ret.status \in {"SUCCESS", "FAILED"}
          /\ ret.status = "FAILED" <=> (QualityEndedFailed \/ arg.monitoring_fails)

\* the quality stage raised, the monitoring stage still ran and succeeded,
\* and the report returned is FAILED
C19_Witness ==
    /\ ret.at = "returned"
    /\ arg.create_table_fails
    /\ ~arg.monitoring_fails
    /\ ret.called = <<"run_quality_checks", "run_monitoring">>
    /\ ret.monitoring_status = "SUCCESS"
    /\ ret.status = "FAILED"

----------------------------------------------------------------------------
(* seed selection of the two scorers *)

Liked == {m \in DOMAIN history : history[m] >= positive_threshold}

\* the seed set the history calls for
ExpectedSeed == IF Liked = {} THEN DOMAIN history ELSE Liked

\* the rows of item_neighbors from an expected seed movie to candidate c
SeedRows(c) == {r \in item_neighbors.rows : r.movieId \in ExpectedSeed /\ r.neighborMovieId = c}

PastColdStart == DOMAIN history # {} /\ Cardinality(DOMAIN history) >= min_user_ratings

\* C20: past the cold-start check the seed set is the set of history items
\* rated at least positive_threshold when there is one, the whole history
\* otherwise; every score and every explanation the two scorers return is
\* made of the neighbor rows of that seed set only, so an item rated below
\* the threshold contributes to no score when some item is rated at or above it
C20_SeedIsLikedElseWholeHistory ==
    /\ PastColdStart => seed(history) = ExpectedSeed
    /\ (call.op = "recommend_for_user" /\ call.out.kind = "ok" /\ call.out.strategy = "item_based_cf") =>
          \A i \in 1..Len(call.out.recommendations) :
             LET rec == call.out.recommendations[i]
             IN /\ rec.score = score_of(SeedRows(rec.movieId), history)
                /\ \A j \in 1..Len(rec.explanations) : rec.explanations[j].because_movieId \in ExpectedSeed
    /\ (call.op = "ItemCFPyFunc.predict" /\ call.out.kind = "frame" /\ PastColdStart
          /\ \E c \in Items \ DOMAIN history : SeedRows(c) # {}) =>
          \A i \in 1..Len(call.out.recommendations) :
             LET rec == call.out.recommendations[i]
             IN /\ rec.movieId \notin DOMAIN history
                /\ SeedRows(rec.movieId) # {}
                /\ rec.score = <<SumOver(SeedRows(rec.movieId), [r \in SeedRows(rec.movieId) |-> r.similarity]), 1>>

\* a history with a liked and a disliked movie, both with neighbor rows to
\* the same unseen movie, and recommend_for_user scoring that movie
C20_Witness ==
    /\ call.op = "recommend_for_user"
    /\ call.out.kind = "ok"
    /\ call.out.strategy = "item_based_cf"
    /\ Liked # {}
    /\ Liked # DOMAIN history
    /\ \E c \in Items \ DOMAIN history :
          /\ \E r \in item_neighbors.rows : r.movieId \notin Liked /\ r.neighborMovieId = c
          /\ \E r \in item_neighbors.rows : r.movieId \in Liked /\ r.neighborMovieId = c
          /\ \E i \in 1..Len(call.out.recommendations) : call.out.recommendations[i].movieId = c

----------------------------------------------------------------------------
(* the candidate score of recommend_for_user over neighbor tables as the
   training job writes them: a neighbor at cosine distance 1 is stored with
   similarity 0 *)

MaxSim == 2             \* similarities are 0..MaxSim
MaxScoreEdges == 2      \* at most this many rows in the neighbor table

ScoreNeighborTables(h) ==
    UNION {{{[movieId |-> p[1], neighborMovieId |-> p[2], similarity |-> f[p]] : p \in P} :
                f \in [P -> 0..MaxSim]} :
            P \in {Q \in SUBSET EdgePairs(h) : Cardinality(Q) <= MaxScoreEdges}}

InitScore ==
    /\ \E h \in Histories \ {<<>>} :
          arg \in [history : {h}, item_neighbors : ScoreNeighborTables(h), n_reco : 1..MaxNReco]
    /\ ret = NoCall
    /\ ServeIdle
    /\ TrainIdle
    /\ PubIdle

\* recommend_for_user(user_id, n_reco, min_user_ratings = 1)
ScoreCandidates ==
    /\ ret.op = "none"
    /\ \E out \in recommend_for_user(arg.history, Table(arg.item_neighbors), NoPopularity, arg.n_reco, 1) :
          ret' = [op |-> "recommend_for_user", out |-> out]
    /\ UNCHANGED <<arg, serveVars, trainVars, pubVars>>

NextScore == ScoreCandidates

SpecScore == InitScore /\ [][NextScore]_vars

\* the ratings of the seed items that have an edge to candidate c
ContributingRatings(c) ==
    {arg.history[r.movieId] : r \in {x \in arg.item_neighbors :
                                        x.movieId \in seed(arg.history) /\ x.neighborMovieId = c}}

\* C21: the score of every returned candidate is the similarity-weighted
\* sum of the contributing seed ratings over the sum of the similarities,
\* and so (the similarities being non-negative, and up to the epsilon of
\* the normaliser) lies between the smallest and the largest of those ratings
C21_ScoreBetweenContributingRatings ==
    (ret.op = "recommend_for_user" /\ ret.out.kind = "ok" /\ ret.out.strategy = "item_based_cf") =>
       \A i \in 1..Len(ret.out.recommendations) :
          LET rec == ret.out.recommendations[i]
              g == {x \in arg.item_neighbors : x.movieId \in seed(arg.history) /\ x.neighborMovieId = rec.movieId}
          IN /\ rec.score = <<SumOver(g, [x \in g |-> x.similarity * arg.history[x.movieId]]),
                              SumOver(g, [x \in g |-> x.similarity])>>
             /\ rec.score[2] > 0
             /\ \A r \in ContributingRatings(rec.movieId) :
                   \/ \E q \in ContributingRatings(rec.movieId) : q < r
                   \/ r * rec.score[2] <= rec.score[1]
             /\ \A r \in ContributingRatings(rec.movieId) :
                   \/ \E q \in ContributingRatings(rec.movieId) : q > r
                   \/ rec.score[1] <= r * rec.score[2]

----------------------------------------------------------------------------
(* the explanations of recommend_for_user *)

\* C22: every item_based_cf recommendation carries at most explain_top_k
\* explanations; their sources are distinct seed items with an edge to the
\* candidate, they are listed by descending contribution, and no seed item
\* left out contributes more than one that is listed
C22_ExplanationsAreTopContributors ==
    (call.op = "recommend_for_user" /\ call.out.kind = "ok" /\ call.out.strategy = "item_based_cf") =>
       \A i \in 1..Len(call.out.recommendations) :
          LET rec == call.out.recommendations[i]
              e == rec.explanations
              g == SeedRows(rec.movieId)
              listed == {e[j].because_movieId : j \in 1..Len(e)}
          IN /\ Len(e) <= explain_top_k
             /\ Cardinality(listed) = Len(e)
             /\ \A j \in 1..Len(e) :
                   \E r \in g : /\ r.movieId = e[j].because_movieId
                                /\ e[j].similarity = r.similarity
                                /\ e[j].rating = history[r.movieId]
                                /\ e[j].contribution = contribution(r, g, history)
             /\ \A j \in 1..(Len(e) - 1) : ScoreGE(e[j].contribution, e[j + 1].contribution)
             /\ \A r \in g : r.movieId \notin listed =>
                   \A j \in 1..Len(e) : ScoreGE(e[j].contribution, contribution(r, g, history))

----------------------------------------------------------------------------
(* the evaluator of train_item_based_cf and the serving scorer, on the same
   training-side history and the same neighbor rows *)

\* item_neighbors_df: the rows source by source, nearest neighbor first;
\* a similarity s stands for s / MaxSim
NeighborFrames(rows) ==
    {[i \in 1..Len(o) |-> [movieId |-> o[i].movieId, neighborMovieId |-> o[i].neighborMovieId,
                           similarity |-> <<o[i].similarity, MaxSim * MaxSim>>]] :
        o \in AscSeqs(rows, [r \in rows |-> r.movieId * (MaxSim + 1) + (MaxSim - r.similarity)])}

NotEvaluated == [done |-> FALSE, best |-> <<>>]

InitEvalRank ==
    /\ \E h \in Histories \ {<<>>} : \E rows \in NeighborTables(h) :
          arg \in [history : {h}, item_neighbors : {rows}, item_neighbors_df : NeighborFrames(rows)]
    /\ ret = [evaluator |-> NotEvaluated, scorer |-> NoCall]
    /\ ServeIdle
    /\ TrainIdle
    /\ PubIdle

\* step 6 for one user: hist is the set of training movies of the user
EvaluateUser ==
    /\ ~ret.evaluator.done
    /\ ret' = [ret EXCEPT !.evaluator = [done |-> TRUE,
                                         best |-> eval_best(arg.item_neighbors_df, DOMAIN arg.history)]]
    /\ UNCHANGED <<arg, serveVars, trainVars, pubVars>>

\* recommend_for_user on the same history and rows
ScoreUser ==
    /\ ret.scorer.op = "none"
    /\ \E out \in recommend_for_user(arg.history, Table(arg.item_neighbors), NoPopularity, eval_k, 1) :
          ret' = [ret EXCEPT !.scorer = [op |-> "recommend_for_user", out |-> out]]
    /\ UNCHANGED <<arg, serveVars, trainVars, pubVars>>

NextEvalRank == EvaluateUser \/ ScoreUser

SpecEvalRank == InitEvalRank /\ [][NextEvalRank]_vars

\* the candidates of the serving scorer and their scores
ScorerCandidates ==
    IF ret.scorer.out.kind = "ok"
    THEN {ret.scorer.out.recommendations[i].movieId : i \in 1..Len(ret.scorer.out.recommendations)}
    ELSE {}

ScorerScore(c) ==
    LET i == CHOOSE j \in 1..Len(ret.scorer.out.recommendations) : ret.scorer.out.recommendations[j].movieId = c
    IN ret.scorer.out.recommendations[i].score

\* C23: for one training-side history and neighbor graph, the evaluator
\* keeps the candidates of the serving scorer (same seed selection) and
\* lists them by descending serving score (same rating-weighted normalised
\* score); it lists no popularity item when there is no candidate
C23_EvaluatorRanksAsScorer ==
    (ret.evaluator.done /\ ret.scorer.op = "recommend_for_user") =>
       /\ Range(ret.evaluator.best) = ScorerCandidates
       /\ \A i \in 1..Len(ret.evaluator.best) : \A j \in (i + 1)..Len(ret.evaluator.best) :
             ScoreGE(ScorerScore(ret.evaluator.best[i]), ScorerScore(ret.evaluator.best[j]))

----------------------------------------------------------------------------
(* step 6 of train_item_based_cf on its own: the aggregate metrics of a
   training side, a held-out side and a neighbor frame *)

MaxFrameRows == 2       \* at most this many rows in the neighbor frame

\* neighbor frames over the training movies: the rows source by source,
\* every similarity 1
EvalFrames ==
    UNION {{[i \in 1..Len(o) |-> [movieId |-> o[i][1], neighborMovieId |-> o[i][2], similarity |-> <<1, 1>>]] :
               o \in AscSeqs(P, [p \in P |-> p[1] * (MaxTrainItem + 1) + p[2]])} :
            P \in {Q \in SUBSET {p \in TrainItems \X TrainItems : p[1] # p[2]} :
                      Cardinality(Q) <= MaxFrameRows}}

\* the two sides of a split: disjoint sets of (userId, movieId) rows
EvalSplits ==
    {[train |-> {k \in RowKeys : f[k] = "train"}, test |-> {k \in RowKeys : f[k] = "test"}] :
        f \in [RowKeys -> {"train", "test", "absent"}]}

InitAggregate ==
    /\ \E sp \in EvalSplits :
          arg \in [train : {sp.train}, test : {sp.test}, item_neighbors_df : EvalFrames]
    /\ ret = [logged |-> FALSE, metrics |-> <<>>]
    /\ ServeIdle
    /\ TrainIdle
    /\ PubIdle

\* step 6: the evaluation loop and the three mlflow.log_metric calls
LogMetrics ==
    /\ ~ret.logged
    /\ ret' = [logged |-> TRUE, metrics |-> evaluate(arg.item_neighbors_df, arg.train, arg.test)]
    /\ UNCHANGED <<arg, serveVars, trainVars, pubVars>>

NextAggregate == LogMetrics

SpecAggregate == InitAggregate /\ [][NextAggregate]_vars

\* the sampled users with a training history and a held-out set
Qualifying == {u \in users_of(arg.test) : \E k \in arg.train : k[1] = u}

HeldOut(u) == movies_of({k \in arg.test : k[1] = u})

RECURSIVE GCD(_, _)
GCD(a, b) == IF b = 0 THEN a ELSE GCD(b, a % b)

\* a fraction <<num, den>>, den > 0, in lowest terms
Lowest(f) == <<f[1] \div GCD(f[1], f[2]), f[2] \div GCD(f[1], f[2])>>

\* mean is the arithmetic mean of the fractions per[u], u in Qualifying
\* (0 when no user qualifies)
IsMeanOverQualifying(mean, per) ==
    LET q == SortedIds(Qualifying)
        total == SumFractions([i \in 1..Len(q) |-> per[q[i]]])
    IN IF Qualifying = {} THEN mean[1] = 0 /\ mean[2] > 0
       ELSE /\ mean[2] > 0
            /\ Lowest(mean) = Lowest(<<total[1], total[2] * Cardinality(Qualifying)>>)

----------------------------------------------------------------------------
(* ties in distance at the neighbor step *)

\* C25: which items at equal distance from a source enter its k nearest,
\* and in which order, is fixed by a rule of the program: the training
\* side, the ratings and k determine the neighbor rows, whatever the order
\* in which the library returns items at equal distance
C25_TiesBrokenByProgramRule ==
    tpc = "neighbors" =>
       item_neighbors_dfs(ratings.rows, run.train, k_neighbors) = {run.item_neighbors_df}

----------------------------------------------------------------------------
(* concurrent training jobs: POST /training runs in a worker thread of the
   API and starts train_model2 as a subprocess, the cron job calls
   train_item_based_cf in its own process; nothing serialises them but the
   table locks of the database *)

MaxJobs == 2            \* training jobs that can be started

Jobs == 1..MaxJobs
NoJob == 0

\* a job executes steps 7 to 9 once it has written its parquet files and
\* until its transaction is committed
Writing(pc) == pc \in {"files", "logged", "registered", "in_tx"}

InitJobs ==
    /\ arg = [trigger |-> [j \in Jobs |-> "none"]]
    /\ ret = [pc |-> [j \in Jobs |-> "idle"],
              parquet |-> NoJob,          \* whose rows mlflow_artifacts/*.parquet hold
              logged |-> [j \in Jobs |-> NoJob],
              versions |-> <<>>,          \* registered versions: [by, rows]
              lock |-> NoJob,             \* the transaction holding the table locks
              tables |-> NoJob]           \* whose rows the published tables hold
    /\ ServeIdle
    /\ TrainIdle
    /\ PubIdle

\* a training request: steps 1 to 6 run in the job's own memory
TrainingRequest ==
    \E j \in Jobs : \E t \in {"POST /training", "cron"} :
       /\ ret.pc[j] = "idle"
       /\ arg' = [arg EXCEPT !.trigger[j] = t]
       /\ ret' = [ret EXCEPT !.pc[j] = "training"]
       /\ UNCHANGED <<serveVars, trainVars, pubVars>>

\* step 7: to_parquet to the fixed paths under mlflow_artifacts/
WriteParquet ==
    \E j \in Jobs :
       /\ ret.pc[j] = "training"
       /\ ret' = [ret EXCEPT !.pc[j] = "files", !.parquet = j]
       /\ UNCHANGED <<arg, serveVars, trainVars, pubVars>>

\* step 7: mlflow.log_artifact of the two files as they are now
LogArtifact ==
    \E j \in Jobs :
       /\ ret.pc[j] = "files"
       /\ ret' = [ret EXCEPT !.pc[j] = "logged", !.logged[j] = ret.parquet]
       /\ UNCHANGED <<arg, serveVars, trainVars, pubVars>>

\* step 8: log_model packs the two files as they are now into a new version
RegisterModel ==
    \E j \in Jobs :
       /\ ret.pc[j] = "logged"
       /\ ret' = [ret EXCEPT !.pc[j] = "registered",
                             !.versions = Append(@, [by |-> j, rows |-> ret.parquet])]
       /\ UNCHANGED <<arg, serveVars, trainVars, pubVars>>

\* step 9: engine.begin(), DROP TABLE and to_sql; the DROP waits for the
\* table lock of another open transaction
ReplaceTables ==
    \E j \in Jobs :
       /\ ret.pc[j] = "registered"
       /\ ret.lock = NoJob
       /\ ret' = [ret EXCEPT !.pc[j] = "in_tx", !.lock = j]
       /\ UNCHANGED <<arg, serveVars, trainVars, pubVars>>

\* step 9: the commit publishes the job's own frames
CommitTables ==
    \E j \in Jobs :
       /\ ret.pc[j] = "in_tx"
       /\ ret' = [ret EXCEPT !.pc[j] = "done", !.lock = NoJob, !.tables = j]
       /\ UNCHANGED <<arg, serveVars, trainVars, pubVars>>

NextJobs ==
    \/ TrainingRequest
    \/ WriteParquet
    \/ LogArtifact
    \/ RegisterModel
    \/ ReplaceTables
    \/ CommitTables

SpecJobs == InitJobs /\ [][NextJobs]_vars

\* C26: at any time at most one training job is executing its
\* artifact-writing and table-replacement steps
C26_OneTrainingWriterAtATime ==
    \A i \in Jobs : \A j \in Jobs \ {i} : ~(Writing(ret.pc[i]) /\ Writing(ret.pc[j]))

----------------------------------------------------------------------------
(* main_user_api.training: POST /training *)

TrainingSteps == <<"create_snapshot", "dvc add", "dvc push", "train_model2">>

\* what a child process does: it exits with status 0, it exits with
\* another status, or it cannot be started (no such executable)
ProcessOutcomes == {"exit_0", "exit_nonzero", "not_started"}

\* subprocess.run without check: the exit status is not looked at
subprocess_run_unchecked(outcome) ==
    IF outcome = "not_started" THEN "FileNotFoundError" ELSE "completed"

\* subprocess.run(..., check=True)
subprocess_run(outcome) ==
    IF outcome = "exit_0" THEN "completed"
    ELSE IF outcome = "exit_nonzero" THEN "CalledProcessError"
    ELSE "FileNotFoundError"

NoResponse == [status |-> 0, message |-> "none"]

\* the endpoint after the step at position i has run with the given result:
\* the next step, or the response (HTTPException(500) for a
\* CalledProcessError, the server's 500 for any other exception)
after_step(r, i, result) ==
    LET ran == Append(r.ran, TrainingSteps[i])
    IN IF result = "completed"
       THEN [r EXCEPT !.ran = ran, !.at = i + 1]
       ELSE [r EXCEPT !.ran = ran, !.at = 0,
                      !.response = [status |-> 500,
                                    message |-> IF result = "CalledProcessError" THEN "CalledProcessError"
                                                ELSE "Internal Server Error"]]

InitTrainingEndpoint ==
    /\ arg \in [outcome : [1..Len(TrainingSteps) -> ProcessOutcomes]]
    \* at: the position of the step about to run, 0 once the response is sent
    /\ ret = [at |-> 1, ran |-> <<>>, response |-> NoResponse]
    /\ ServeIdle
    /\ TrainIdle
    /\ PubIdle

\* subprocess.run([python_exec, "src/ingestion/create_snapshot.py"], check=True)
CreateSnapshot ==
    /\ ret.at = 1
    /\ ret' = after_step(ret, 1, subprocess_run(arg.outcome[1]))
    /\ UNCHANGED <<arg, serveVars, trainVars, pubVars>>

\* subprocess.run(["dvc", "add", "data/training_set.parquet"], check=True)
DvcAdd ==
    /\ ret.at = 2
    /\ ret' = after_step(ret, 2, subprocess_run(arg.outcome[2]))
    /\ UNCHANGED <<arg, serveVars, trainVars, pubVars>>

\* subprocess.run(["dvc", "push", "data/training_set.parquet.dvc"], check=True)
DvcPush ==
    /\ ret.at = 3
    /\ ret' = after_step(ret, 3, subprocess_run(arg.outcome[3]))
    /\ UNCHANGED <<arg, serveVars, trainVars, pubVars>>

\* subprocess.run([python_exec, "-m", "src.models.train_model2", ...], check=True)
TrainModel2 ==
    /\ ret.at = 4
    /\ ret' = after_step(ret, 4, subprocess_run(arg.outcome[4]))
    /\ UNCHANGED <<arg, serveVars, trainVars, pubVars>>

\* return {"status": "success", "message": "Training Complete"}
TrainingComplete ==
    /\ ret.at = Len(TrainingSteps) + 1
    /\ ret' = [ret EXCEPT !.at = 0, !.response = [status |-> 200, message |-> "Training Complete"]]
    /\ UNCHANGED <<arg, serveVars, trainVars, pubVars>>

NextTrainingEndpoint == CreateSnapshot \/ DvcAdd \/ DvcPush \/ TrainModel2 \/ TrainingComplete

SpecTrainingEndpoint == InitTrainingEndpoint /\ [][NextTrainingEndpoint]_vars

\* the positions of the steps that do not exit with status 0
FailingSteps == {i \in 1..Len(TrainingSteps) : arg.outcome[i] # "exit_0"}

\* C27: POST /training starts the snapshot, dvc add, dvc push and the
\* training in that order, a step only after every earlier step exited
\* with status 0; the first failing step is the last one started and the
\* response is then HTTP 500; "Training Complete" is returned only after
\* all four exited with status 0
C27_TrainingStepsInOrderStopAtFirstFailure ==
    /\ ret.ran = SubSeq(TrainingSteps, 1, Len(ret.ran))
    /\ \A i \in 1..Len(ret.ran) : \A k \in 1..(i - 1) : arg.outcome[k] = "exit_0"
    /\ ret.response # NoResponse =>
          IF FailingSteps = {}
          THEN /\ ret.ran = TrainingSteps
               /\ ret.response = [status |-> 200, message |-> "Training Complete"]
          ELSE /\ ret.response.status = 500
               /\ Len(ret.ran) \in FailingSteps
               /\ \A i \in FailingSteps : Len(ret.ran) <= i

\* dvc add fails after a successful snapshot: neither dvc push nor the
\* training is started and the response is 500
C27_Witness ==
    /\ arg.outcome[1] = "exit_0"
    /\ arg.outcome[2] = "exit_nonzero"
    /\ arg.outcome[4] = "exit_0"
    /\ ret.ran = <<"create_snapshot", "dvc add">>
    /\ ret.response.status = 500

----------------------------------------------------------------------------
(* promote_best_model: the "production" alias of the registered model *)

MaxVersions == 3        \* registered versions
MaxMetric == 1          \* a metric is 0..MaxMetric

RunMetrics == [ndcg_10 : 0..MaxMetric, precision_10 : 0..MaxMetric, recall_10 : 0..MaxMetric]

NoAlias == 0

\* 0.6 * ndcg + 0.3 * precision + 0.1 * recall, in tenths
compute_weighted_score(metrics) ==
    6 * metrics.ndcg_10 + 3 * metrics.precision_10 + 1 * metrics.recall_10

\* try: get_model_version_by_alias / except Exception: prod_version = None.
\* The call raises when the alias is not set and when the tracking server
\* does not answer it
prod_version(production, answered) == IF answered THEN production ELSE NoAlias

\* the version the alias designates after promote_best_model
promote_best_model(versions, production, answered) ==
    IF versions = <<>> THEN production
    ELSE LET challenger == Len(versions)
             champion == prod_version(production, answered)
         IN IF champion = NoAlias THEN challenger
            ELSE IF compute_weighted_score(versions[challenger]) > compute_weighted_score(versions[champion])
            THEN challenger
            ELSE production

InitPromote ==
    /\ arg = <<>>
    /\ ret = [versions |-> <<>>, production |-> NoAlias]
    /\ ServeIdle
    /\ TrainIdle
    /\ PubIdle

\* a training run registers a new version, its metrics already logged
RegisterVersion ==
    /\ Len(ret.versions) < MaxVersions
    /\ \E m \in RunMetrics : ret' = [ret EXCEPT !.versions = Append(@, m)]
    /\ UNCHANGED <<arg, serveVars, trainVars, pubVars>>

PromoteBestModel ==
    /\ \E answered \in BOOLEAN :
          ret' = [ret EXCEPT !.production = promote_best_model(ret.versions, ret.production, answered)]
    /\ UNCHANGED <<arg, serveVars, trainVars, pubVars>>

NextPromote == RegisterVersion \/ PromoteBestModel

SpecPromote == InitPromote /\ [][NextPromote]_vars

\* C28: over registrations and promote_best_model invocations the
\* weighted score of the production version never decreases: the alias
\* moves only to the highest-numbered version, and only when there is no
\* production version or that version's score is strictly greater
C28_ProductionScoreNeverDecreases ==
    [][ret'.production # ret.production =>
          /\ ret'.production = Len(ret.versions)
          /\ \/ ret.production = NoAlias
             \/ compute_weighted_score(ret.versions[ret'.production])
                   > compute_weighted_score(ret.versions[ret.production])]_vars

----------------------------------------------------------------------------
(* run_training_with_monitoring.main: every training run is logged in
   raw.training_run_log *)

MaxInvocations == 3     \* invocations of main

\* how train_item_based_cf ends: it returns, or it raises an exception
TrainingOutcomes == {"returned", "FileNotFoundError", "OperationalError"}

\* status = "SUCCESS", set to "FAILED" by the except Exception block
run_status(outcome) == IF outcome = "returned" THEN "SUCCESS" ELSE "FAILED"

\* error_message = None, or str(e) and the traceback
error_message(outcome) == IF outcome = "returned" THEN "NULL" ELSE outcome

\* one invocation: how its training ended, the rows it has appended to the
\* log, how it ended itself
NotInvoked == [training |-> "not_run", rows |-> <<>>, ended |-> "no"]

InitTrainingLog ==
    /\ arg = <<>>
    /\ ret = [at |-> "idle", main |-> NotInvoked,
              invocations |-> <<>>,       \* the invocations that have ended
              training_run_log |-> <<>>]
    /\ ServeIdle
    /\ TrainIdle
    /\ PubIdle

\* main(): ensure_training_log_table() runs CREATE TABLE IF NOT EXISTS in
\* a transaction of its own, outside any try block
StartMain ==
    /\ ret.at = "idle"
    /\ Len(ret.invocations) < MaxInvocations
    /\ \E reachable \in BOOLEAN :
          ret' = IF reachable
                 THEN [ret EXCEPT !.at = "train", !.main = NotInvoked]
                 ELSE [ret EXCEPT !.invocations = Append(@, [NotInvoked EXCEPT !.ended = "OperationalError"])]
    /\ UNCHANGED <<arg, serveVars, trainVars, pubVars>>

\* try: train_item_based_cf(k_neighbors=20, min_ratings=50) / except Exception
TrainInsideTry ==
    /\ ret.at = "train"
    /\ \E outcome \in TrainingOutcomes :
          ret' = [ret EXCEPT !.at = "insert", !.main.training = outcome]
    /\ UNCHANGED <<arg, serveVars, trainVars, pubVars>>

\* with engine.begin(): INSERT INTO training_run_log (..., status, ...,
\* error_message), outside any try block
InsertRunLog ==
    /\ ret.at = "insert"
    /\ \E reachable \in BOOLEAN :
          ret' = IF reachable
                 THEN LET row == [status |-> run_status(ret.main.training),
                                  error_message |-> error_message(ret.main.training)]
                      IN [ret EXCEPT !.at = "end",
                                     !.main.rows = Append(@, row),
                                     !.training_run_log = Append(@, row)]
                 ELSE [ret EXCEPT !.at = "idle", !.main = NotInvoked,
                                  !.invocations = Append(@, [ret.main EXCEPT !.ended = "OperationalError"])]
    /\ UNCHANGED <<arg, serveVars, trainVars, pubVars>>

\* if status == "FAILED": raise RuntimeError(...); else main returns
EndMain ==
    /\ ret.at = "end"
    /\ ret' = [ret EXCEPT !.at = "idle", !.main = NotInvoked,
                          !.invocations = Append(@, [ret.main EXCEPT !.ended =
                                IF run_status(ret.main.training) = "FAILED" THEN "RuntimeError" ELSE "returned"])]
    /\ UNCHANGED <<arg, serveVars, trainVars, pubVars>>

NextTrainingLog == StartMain \/ TrainInsideTry \/ InsertRunLog \/ EndMain

SpecTrainingLog == InitTrainingLog /\ [][NextTrainingLog]_vars

\* C29: every invocation of main appends exactly one row to
\* training_run_log, SUCCESS exactly when train_item_based_cf returned and
\* FAILED otherwise, and the row of a failed run is there before the
\* RuntimeError reaches the caller
C29_OneLogRowPerTrainingRun ==
    /\ Len(ret.training_run_log) = Len(ret.invocations) + Len(ret.main.rows)
    /\ \A i \in 1..Len(ret.invocations) :
          LET inv == ret.invocations[i]
          IN /\ Len(inv.rows) = 1
             /\ inv.rows[1].status = "SUCCESS" <=> inv.training = "returned"
             /\ inv.rows[1].status = "FAILED" <=> inv.training # "returned"
             /\ inv.ended = (IF inv.training = "returned" THEN "returned" ELSE "RuntimeError")

----------------------------------------------------------------------------
(* the registered model against the scorer *)

\* the movieId column of a result, in the order returned
MovieIds(recs) == [i \in 1..Len(recs) |-> recs[i].movieId]

\* the item lists recommend_for_user can return on the inputs of the call
ScorerItemLists ==
    {MovieIds(out.recommendations) :
        out \in {o \in recommend_for_user(history, item_neighbors, movie_popularity,
                                          n_reco, min_user_ratings) : o.kind = "ok"}}

\* C30: on the same history, neighbor graph, popularity table and
\* configuration, the items ItemCFPyFunc.predict returns, in their order,
\* are a list recommend_for_user returns
C30_RegisteredModelAgreesWithScorer ==
    (call.op = "ItemCFPyFunc.predict" /\ call.out.kind = "frame")
        => MovieIds(call.out.recommendations) \in ScorerItemLists

====
